---- MODULE Spec2Model ----
(***************************************************************************)
(* A model of the checkout SDK's billing-address action creator            *)
(* (BillingAddressActionCreator), of the Stripe checkout-session payment   *)
(* strategy (StripeCSPaymentStrategy), of the consignment selector, of the *)
(* Stripe script loader (StripeUPEScriptLoader), of mergeOrPush and of the *)
(* language service (LanguageService).                                     *)
(*                                                                         *)
(* JavaScript values are encoded as strings: Undef is `undefined`, "null"  *)
(* is `null`, "true"/"false" are the booleans, "" is the empty string.     *)
(* A JavaScript object is a function from the keys it owns to values; an   *)
(* optional object is a sequence of length 0 (undefined) or 1.             *)
(***************************************************************************)
EXTENDS Integers, Sequences, FiniteSets, TLC

\* ------------------------------------------------------------------------
\* Bounds of the model
\* ------------------------------------------------------------------------

\* number of action-creator calls a behaviour may start
MaxCalls == 2

\* number of clients a behaviour may ask the script loader for, and of
\* checkout instances it may make
MaxInitializes == 2

\* number of initialize() calls of one strategy that may be in flight together
MaxOverlap == 2

\* number of getStripeClient calls, and of getElements calls, made on one
\* host window
MaxClientCalls == 3

\* ------------------------------------------------------------------------
\* JavaScript values and objects
\* ------------------------------------------------------------------------

Undef == "undefined"

EmptyObject == [k \in {} |-> Undef]

\* o[k] of JavaScript: undefined when the key is not owned
Get(o, k) == IF k \in DOMAIN o THEN o[k] ELSE Undef

\* { ...a, ...b }
Spread(a, b) == [k \in (DOMAIN a) \cup (DOMAIN b) |-> IF k \in DOMAIN b THEN b[k] ELSE a[k]]

\* const { k, ...rest } = o
Rest(o, ks) == [k \in (DOMAIN o) \ ks |-> o[k]]

\* { k: v } with the key left out when v is undefined
Field(k, v) == IF v = Undef THEN EmptyObject ELSE (k :> v)

\* JavaScript truthiness of an encoded value
Truthy(v) == v \notin {Undef, "null", "", "false"}

\* lodash isEmpty of an optional object: undefined, or no own keys
isEmpty(opt) == opt = <<>> \/ DOMAIN opt[1] = {}

\* ------------------------------------------------------------------------
\* Inputs
\* ------------------------------------------------------------------------

Address(id, email) == Field("id", id) @@ Field("email", email) @@ ("country" :> "US")

\* billing addresses the store may hold when the calls start: none, one from
\* an order (no id), one persisted (with id)
InitialBillingAddresses ==
    { <<>>, <<Address(Undef, "stored@x")>>, <<Address("a1", "stored@x")>> }

\* billing addresses a response of the server may carry
ResponseAddresses == { Address("a1", "r1@x"), Address("a2", "r2@x") }

RequestErrors == { "e1", "e2" }

SubscriptionErrors == { "e3" }

ConsentValues == { Undef, "null", "false", "true" }

GuestCredentials ==
    { ("email" :> "guest@x") @@ Field("acceptsMarketingNewsletter", m)
                             @@ Field("acceptsAbandonedCartEmails", a) :
        m \in ConsentValues, a \in ConsentValues }

\* Partial<BillingAddressUpdateRequestBody>: email omitted, empty or given;
\* id omitted or given
AddressInputs ==
    { Field("id", i) @@ Field("email", e) @@ ("firstName" :> "F") :
        i \in {Undef, "a9"}, e \in {Undef, "", "new@x"} }

Calls == 1..MaxCalls

VARIABLES
    checkout,             \* state.checkout.getCheckout(): optional checkout
    customer,             \* state.customer.getCustomer(): "none", "guest", "full"
    config,               \* state.config: "noConfig", "noFlag", "on", "off"
    billingAddressState,  \* the billing-address slice of the store
    calls,                \* per call: kind, input, stream, requests, actions
    lastTerminal          \* the billing terminal action dispatched last

billingVars == <<checkout, customer, config, billingAddressState, calls, lastTerminal>>

VARIABLES
    stripeClient,         \* this.stripeClient: 0 (undefined) or a client handle
    stripeCheckout,       \* this.stripeCheckout: 0 (undefined) or a checkout instance
    selectedMethodId,     \* this.selectedMethodId
    elements,             \* per checkout instance: its payment element
    loaderCalls,          \* number of scriptLoader.getStripeClient calls
    loads,                \* those made since the constructor or the last deinitialize()
    instances,            \* number of checkout instances getStripeCheckout made
    init,                 \* the initialize() call made last
    exec,                 \* the execute() call made since the last initialize()
                          \* or deinitialize()
    lastCompleted,        \* the initialize() or deinitialize() that completed last
    finalized,            \* what a finalize() just called rejected with, "none"
                          \* once the strategy has moved on
    lastPaymentEvent      \* the type of the payment event, not collapsed, that the
                          \* payment element emitted last since the last
                          \* deinitialize(): what the shopper sees selected

VARIABLES
    inits,                \* per overlapping initialize() call: its position, what
                          \* _loadStripeJs gave it, its outcome
    lastLoaded,           \* the client handle the _loadStripeJs that resolved last
                          \* since the last deinitialize() resolved with, 0 for none
    released              \* deinitialize() has returned and no initialize() was
                          \* started since

overlapVars == <<inits, lastLoaded, released>>

stripeVars == <<stripeClient, stripeCheckout, selectedMethodId,
                elements, loaderCalls, loads, instances, init, exec, lastCompleted,
                finalized, lastPaymentEvent, overlapVars>>

VARIABLES
    consignmentState,     \* the consignment slice a ConsignmentSelector is made of
    cart,                 \* cartSelector.getCart(): null or the cart
    selection             \* the selector method called, its argument, its result

selectorVars == <<consignmentState, cart, selection>>

VARIABLES
    windowStripe,         \* whether the host window has Stripe
    bcStripeClient,       \* window.bcStripeClient: optional client
    bcStripeElements,     \* window.bcStripeElements: optional elements instance
    scriptLoads,          \* number of loadScript calls
    clientsConstructed,   \* number of stripe(...) constructions
    elementsConstructed,  \* number of stripeClient.elements(...) constructions
    clientCalls,          \* per getStripeClient call: position, arguments, outcome
    elementsCall          \* the getElements call made last

loaderVars == <<windowStripe, bcStripeClient, bcStripeElements, scriptLoads,
                clientsConstructed, elementsConstructed, clientCalls, elementsCall>>

VARIABLES
    mergeArray,           \* mergeOrPush: the array given, an object with an identity
    mergeItem,            \* the item given
    mergePredicate,       \* the optional predicate given
    mergeResult           \* the optional array returned

mergeVars == <<mergeArray, mergeItem, mergePredicate, mergeResult>>

VARIABLES
    isCspNonceExperimentEnabled,  \* this._isCspNonceExperimentEnabled
    translations,         \* this._translations: per key, a string or undefined
    locales,              \* this._locales: per key, a locale or undefined
    formatters,           \* this._formatters: per key, the optional formatter
    mapped,               \* the mapKeys call made last: <<key, existing key>>
    translated            \* the translate call made last: key, data, result

languageVars == <<isCspNonceExperimentEnabled, translations, locales, formatters, mapped,
                  translated>>

libraryVars == <<selectorVars, loaderVars, mergeVars, languageVars>>

vars == <<billingVars, stripeVars, libraryVars>>

\* ------------------------------------------------------------------------
\* The store: actions and the billing-address slice
\* ------------------------------------------------------------------------

\* { type, payload }
createAction(type, payload) ==
    [type |-> type, payload |-> payload, cause |-> "none", error |-> FALSE]

\* { type, payload: e, error: true }
createErrorAction(type, e) ==
    [type |-> type, payload |-> <<>>, cause |-> e, error |-> TRUE]

RequestedType(kind) ==
    IF kind = "continueAsGuest" THEN "ContinueAsGuestRequested"
                                ELSE "UpdateBillingAddressRequested"

SucceededType(kind) ==
    IF kind = "continueAsGuest" THEN "ContinueAsGuestSucceeded"
                                ELSE "UpdateBillingAddressSucceeded"

FailedType(kind) ==
    IF kind = "continueAsGuest" THEN "ContinueAsGuestFailed"
                                ELSE "UpdateBillingAddressFailed"

BillingRequestedTypes == { "ContinueAsGuestRequested", "UpdateBillingAddressRequested" }
BillingSucceededTypes == { "ContinueAsGuestSucceeded", "UpdateBillingAddressSucceeded" }
BillingFailedTypes == { "ContinueAsGuestFailed", "UpdateBillingAddressFailed" }
BillingTerminalTypes == BillingSucceededTypes \cup BillingFailedTypes

\* the operation an action type belongs to
OperationOf(type) ==
    IF type \in { "ContinueAsGuestRequested", "ContinueAsGuestSucceeded",
                  "ContinueAsGuestFailed" }
    THEN "continueAsGuest" ELSE "updateAddress"

\* The reducer of the billing-address slice: Requested sets the status of its
\* operation and clears its error; Succeeded clears the status and replaces
\* the data by the billing address of the returned checkout; Failed clears
\* the status and records the error; any other action is a no-op.
billingAddressReducer(state, action) ==
    LET op == OperationOf(action.type)
    IN  IF action.type \in BillingRequestedTypes
        THEN [state EXCEPT !.statuses[op] = TRUE, !.errors[op] = Undef]
        ELSE IF action.type \in BillingSucceededTypes
        THEN [state EXCEPT !.statuses[op] = FALSE,
                           !.data = action.payload[1].billingAddress]
        ELSE IF action.type \in BillingFailedTypes
        THEN [state EXCEPT !.statuses[op] = FALSE, !.errors[op] = action.cause]
        ELSE state

RECURSIVE ReduceAll(_, _)
\* dispatch a sequence of actions, in order
ReduceAll(state, actions) ==
    IF actions = <<>> THEN state
    ELSE ReduceAll(billingAddressReducer(state, Head(actions)), Tail(actions))

\* ------------------------------------------------------------------------
\* BillingAddressActionCreator
\* ------------------------------------------------------------------------

\* features['CHECKOUT-8392.fix_billing_creation_in_checkout'] ?? true
isBillingFixExperimentEnabled(cfg) == cfg # "off"

\* PreconditionError without the guest check of continueAsGuest
PreconditionErrorCheckoutOnly(kind, co, cust) ==
    IF co = <<>> THEN "MissingCheckout" ELSE "none"

\* the first precondition that fails, "none" when all pass
PreconditionError(kind, co, cust) ==
    IF co = <<>> THEN "MissingCheckout"
    ELSE IF kind = "continueAsGuest" /\ cust = "full" THEN "UnableToContinueAsGuest"
    ELSE "none"

\* the request body continueAsGuest builds
continueAsGuestRequestBody(billingAddress, credentials) ==
    IF billingAddress = <<>> THEN credentials
    ELSE Spread(Rest(billingAddress[1], {"country"}), credentials)

\* updateAddressRequestBody falling back on the stored email whenever the
\* caller's email is falsy
updateAddressRequestBodyFalsyEmail(billingAddress, address) ==
    LET withEmail ==
            Spread(address,
                   "email" :> (IF ~Truthy(Get(address, "email")) /\ billingAddress # <<>>
                               THEN Get(billingAddress[1], "email")
                               ELSE Get(address, "email")))
    IN  IF billingAddress # <<>> /\ Truthy(Get(billingAddress[1], "id"))
        THEN Spread(withEmail, "id" :> billingAddress[1]["id"])
        ELSE withEmail

\* updateAddressRequestBody forwarding the stored id only when the caller
\* passed none
updateAddressRequestBodyCallerId(billingAddress, address) ==
    LET withEmail ==
            Spread(address,
                   "email" :> (IF Get(address, "email") = Undef /\ billingAddress # <<>>
                               THEN Get(billingAddress[1], "email")
                               ELSE Get(address, "email")))
    IN  IF /\ billingAddress # <<>>
           /\ Truthy(Get(billingAddress[1], "id"))
           /\ ~Truthy(Get(address, "id"))
        THEN Spread(withEmail, "id" :> billingAddress[1]["id"])
        ELSE withEmail

\* the request body updateAddress builds
updateAddressRequestBody(billingAddress, address) ==
    LET withEmail ==
            Spread(address,
                   "email" :> (IF Get(address, "email") = Undef /\ billingAddress # <<>>
                               THEN Get(billingAddress[1], "email")
                               ELSE Get(address, "email")))
    IN  IF billingAddress # <<>> /\ Truthy(Get(billingAddress[1], "id"))
        THEN Spread(withEmail, "id" :> billingAddress[1]["id"])
        ELSE withEmail

\* createOrUpdateBillingAddress deciding by the id alone, whatever the flag
createOrUpdateBillingAddressById(fixEnabled, hasBillingAddress, address) ==
    IF ~Truthy(Get(address, "id")) THEN "createAddress" ELSE "updateAddress"

\* the request-sender method _createOrUpdateBillingAddress calls
createOrUpdateBillingAddress(fixEnabled, hasBillingAddress, address) ==
    IF fixEnabled
    THEN IF ~hasBillingAddress THEN "createAddress" ELSE "updateAddress"
    ELSE IF ~Truthy(Get(address, "id")) THEN "createAddress" ELSE "updateAddress"

ConsentAbsent(v) == v = Undef \/ v = "null"

\* v || false
OrFalse(v) == IF Truthy(v) THEN v ELSE "false"

\* updateCustomerConsent taking an explicit false for an absent consent
updateCustomerConsentFalsy(credentials) ==
    IF /\ ~Truthy(Get(credentials, "acceptsAbandonedCartEmails"))
       /\ ~Truthy(Get(credentials, "acceptsMarketingNewsletter"))
    THEN <<>>
    ELSE << [email |-> Get(credentials, "email"),
             acceptsMarketingNewsletter |->
                 OrFalse(Get(credentials, "acceptsMarketingNewsletter")),
             acceptsAbandonedCartEmails |->
                 OrFalse(Get(credentials, "acceptsAbandonedCartEmails"))] >>

\* _updateCustomerConsent: the subscriptions sent, <<>> for the empty stream
updateCustomerConsent(credentials) ==
    IF /\ ConsentAbsent(Get(credentials, "acceptsAbandonedCartEmails"))
       /\ ConsentAbsent(Get(credentials, "acceptsMarketingNewsletter"))
    THEN <<>>
    ELSE << [email |-> Get(credentials, "email"),
             acceptsMarketingNewsletter |->
                 OrFalse(Get(credentials, "acceptsMarketingNewsletter")),
             acceptsAbandonedCartEmails |->
                 OrFalse(Get(credentials, "acceptsAbandonedCartEmails"))] >>

\* RequestedActions of a call that emits nothing before its request
RequestedActionsNone(kind) == <<>>

\* the actions a call emits synchronously on subscription, before its request
RequestedActions(kind) == << createAction(RequestedType(kind), <<>>) >>

\* SubscriptionsActionCreator.updateSubscriptions emits on subscription
SubscriptionRequestedActions == << createAction("UpdateSubscriptionsRequested", <<>>) >>

IdleCall ==
    [kind |-> "none", input |-> EmptyObject, billingAddress |-> <<>>,
     stream |-> "idle", thrown |-> "none",
     billing |-> "none", response |-> <<>>, rejection |-> "none",
     consent |-> "none", requests |-> <<>>, actions |-> <<>>, overlapped |-> FALSE]

\* calls are numbered in the order they are made
NextCall == IF \A c \in Calls : calls[c].kind # "none" THEN 0
            ELSE CHOOSE c \in Calls :
                    calls[c].kind = "none" /\ \A d \in 1..(c - 1) : calls[d].kind # "none"

\* a precondition failed: the error is raised, nothing is emitted or sent
Throw(c, kind, err) ==
    /\ calls' = [calls EXCEPT ![c] = [IdleCall EXCEPT !.kind = kind, !.stream = "thrown",
                                                       !.thrown = err]]
    /\ UNCHANGED <<checkout, customer, config, billingAddressState, lastTerminal, stripeVars, libraryVars>>

\* the synchronous part of a call that passed its preconditions: the actions
\* are emitted (and dispatched) and the requests sent, in this order. The
\* call overlaps the calls whose stream is open.
Subscribe(c, kind, input, emitted, requests, consent) ==
    /\ calls' = [calls EXCEPT ![c] =
                    [kind |-> kind, input |-> input,
                     billingAddress |-> billingAddressState.data,
                     stream |-> "open", thrown |-> "none",
                     billing |-> "pending", response |-> <<>>, rejection |-> "none",
                     consent |-> consent,
                     requests |-> requests, actions |-> emitted,
                     overlapped |-> \E d \in Calls : calls[d].stream = "open"]]
    /\ billingAddressState' = ReduceAll(billingAddressState, emitted)
    /\ UNCHANGED <<checkout, customer, config, lastTerminal, stripeVars, libraryVars>>

\* continueAsGuest(credentials)(store), subscribed to at once
continueAsGuest(c, credentials) ==
    /\ c = NextCall
    /\ LET err == PreconditionError("continueAsGuest", checkout, customer)
           billingAddress == billingAddressState.data
           billingAddressRequestBody ==
               continueAsGuestRequestBody(billingAddress, credentials)
           hasBillingAddress == ~isEmpty(billingAddress)
           billingRequest ==
               [kind |-> createOrUpdateBillingAddress(
                             isBillingFixExperimentEnabled(config), hasBillingAddress,
                             billingAddressRequestBody),
                checkoutId |-> checkout[1].id,
                body |-> billingAddressRequestBody]
           subscriptions == updateCustomerConsent(credentials)
       IN  IF err # "none" THEN Throw(c, "continueAsGuest", err)
           ELSE IF subscriptions = <<>>
           THEN Subscribe(c, "continueAsGuest", credentials,
                          RequestedActions("continueAsGuest"),
                          <<billingRequest>>, "none")
           ELSE Subscribe(c, "continueAsGuest", credentials,
                          RequestedActions("continueAsGuest") \o SubscriptionRequestedActions,
                          <<billingRequest,
                            [kind |-> "updateSubscriptions", checkoutId |-> Undef,
                             body |-> subscriptions[1]]>>,
                          "pending")

\* updateAddress(address)(store), subscribed to at once
updateAddress(c, address) ==
    /\ c = NextCall
    /\ LET err == PreconditionError("updateAddress", checkout, customer)
           billingAddress == billingAddressState.data
           hasBillingAddress == ~isEmpty(billingAddress)
           billingAddressRequestBody == updateAddressRequestBody(billingAddress, address)
           billingRequest ==
               [kind |-> createOrUpdateBillingAddress(
                             isBillingFixExperimentEnabled(config), hasBillingAddress,
                             billingAddressRequestBody),
                checkoutId |-> checkout[1].id,
                body |-> billingAddressRequestBody]
       IN  IF err # "none" THEN Throw(c, "updateAddress", err)
           ELSE Subscribe(c, "updateAddress", address, RequestedActions("updateAddress"),
                          <<billingRequest>>, "none")

\* a combination of the two streams that ends only once both have settled
MergedStreamAllSettled(billing, consent) ==
    IF billing = "pending" \/ consent = "pending" THEN "open"
    ELSE IF billing = "rejected" \/ consent = "rejected" THEN "errored"
    ELSE "completed"

\* merge(): completes once every input has, errors as soon as one does
MergedStream(billing, consent) ==
    IF billing = "rejected" \/ consent = "rejected" THEN "errored"
    ELSE IF billing = "resolved" /\ consent \in {"none", "resolved"} THEN "completed"
    ELSE "open"

\* a notification of one of the call's streams: it is delivered, and
\* dispatched, only while the call's stream is open
Notify(c, settled, action) ==
    LET live == calls[c].stream = "open"
        after == [settled EXCEPT !.stream = IF live
                                             THEN MergedStream(settled.billing, settled.consent)
                                             ELSE @,
                                 !.actions = IF live THEN Append(@, action) ELSE @]
    IN  /\ calls' = [calls EXCEPT ![c] = after]
        /\ billingAddressState' = IF live THEN billingAddressReducer(billingAddressState, action)
                                           ELSE billingAddressState
        /\ lastTerminal' = IF live /\ action.type \in BillingTerminalTypes
                           THEN << [call |-> c, action |-> action] >>
                           ELSE lastTerminal
        /\ UNCHANGED <<checkout, customer, config, stripeVars, libraryVars>>

\* the createAddress/updateAddress request resolves with a checkout
ResolveBillingRequest(c, address) ==
    /\ calls[c].billing = "pending"
    /\ LET body == [id |-> checkout[1].id, billingAddress |-> <<address>>]
       IN  Notify(c, [calls[c] EXCEPT !.billing = "resolved", !.response = <<body>>],
                  createAction(SucceededType(calls[c].kind), <<body>>))

\* the createAddress/updateAddress request rejects with e
RejectBillingRequest(c, e) ==
    /\ calls[c].billing = "pending"
    /\ Notify(c, [calls[c] EXCEPT !.billing = "rejected", !.rejection = e],
              createErrorAction(FailedType(calls[c].kind), e))

\* the updateSubscriptions request resolves
ResolveSubscriptionsRequest(c) ==
    /\ calls[c].consent = "pending"
    /\ Notify(c, [calls[c] EXCEPT !.consent = "resolved"],
              createAction("UpdateSubscriptionsSucceeded", <<>>))

\* the updateSubscriptions request rejects
RejectSubscriptionsRequest(c, e) ==
    /\ calls[c].consent = "pending"
    /\ Notify(c, [calls[c] EXCEPT !.consent = "rejected"],
              createErrorAction("UpdateSubscriptionsFailed", e))

\* ------------------------------------------------------------------------
\* StripeCSPaymentStrategy
\* ------------------------------------------------------------------------

\* the checkout instances getStripeCheckout makes, a new one per call
CheckoutInstances == 1..MaxInitializes

\* the options of initialize(): without stripeocs, with an empty containerId,
\* without gatewayId, valid with and without an onError callback
InitializeOptions ==
    { "noStripeocs", "emptyContainerId", "noGatewayId", "valid", "validNoOnError" }

\* what a state of the integration service holds for the method: nothing
\* (getPaymentMethodOrThrow throws), a Stripe method without clientToken, a
\* method with clientToken but no Stripe initialization data, a Stripe method
\* with clientToken
PaymentMethods == { "missing", "noToken", "notStripeLike", "ok" }

\* a value thrown by a collaborator: an Error, or a value that is no Error
Thrown == { "Error", "nonError" }

NoElement == [state |-> "none", mounts |-> 0, unmounts |-> 0, destroys |-> 0,
              listening |-> FALSE]

IdleInitialize ==
    [pc |-> "idle", options |-> "none", outcome |-> "none", failedAt |-> "none",
     thrown |-> "none", onError |-> 0, cached |-> 0, loading |-> 0, pricing |-> "none"]

IdleExecute ==
    [pc |-> "idle", gatewayId |-> Undef, methodId |-> Undef, outcome |-> "none",
     error |-> "none", after |-> "none", credit |-> FALSE, state |-> "none",
     steps |-> <<>>, token |-> Undef, session |-> <<>>, payloads |-> <<>>,
     client |-> 0, first |-> "none", deinitialized |-> "none", confirm |-> "none"]

\* the initialize() calls that may overlap
InitializeCalls == 1..MaxOverlap

IdleOverlapping ==
    [pc |-> "idle", cached |-> 0, loading |-> 0, outcome |-> "none", failedAt |-> "none",
     deinitialized |-> "none"]

\* the strategy after its constructor
StrategyConstructed ==
    /\ stripeClient = 0
    /\ stripeCheckout = 0
    /\ selectedMethodId = Undef
    /\ elements = [k \in CheckoutInstances |-> NoElement]
    /\ loaderCalls = 0
    /\ loads = 0
    /\ instances = 0
    /\ init = IdleInitialize
    /\ exec = IdleExecute
    /\ lastCompleted = "none"
    /\ finalized = "none"
    /\ lastPaymentEvent = Undef
    /\ inits = [c \in InitializeCalls |-> IdleOverlapping]
    /\ lastLoaded = 0
    /\ released = FALSE

\* no initialize() call is in flight
InitializeSettled == init.pc \in {"idle", "done"}

\* no initialize() or execute() call is in flight
Quiescent ==
    /\ init.pc \in {"idle", "done"}
    /\ exec.pc \in {"idle", "done"}

\* stripeCheckout.getPaymentElement(): the instance whose element exists, 0
\* for no element
getPaymentElement(k) ==
    IF k # 0 /\ elements[k].state \in {"created", "mounted"} THEN k ELSE 0

\* the catch block of initialize(): onError is called with an Error, when
\* the options carry the callback; initialize() resolves
InitializeCaught(call, step, thrown) ==
    [call EXCEPT !.pc = "done", !.outcome = "resolved", !.failedAt = step,
                 !.thrown = thrown,
                 !.onError = IF thrown = "Error" /\ call.options = "valid"
                             THEN @ + 1 ELSE @]

\* an action of initialize(): the call becomes next; lastCompleted follows
InitializeBecomes(next) ==
    /\ init' = next
    /\ lastCompleted' = IF next.pc # "done" THEN lastCompleted
                        ELSE IF next.outcome = "NotInitializedError" THEN "initializeRejected"
                        ELSE IF next.failedAt # "none" THEN "initializeFailed"
                        ELSE "initialize"
    /\ finalized' = "none"

\* a _loadStripeJs that calls the script loader whether or not a client is held
LoadStripeJsUncached(call) ==
    /\ InitializeBecomes([call EXCEPT !.pc = "loadStripeJs",
                                      !.cached = 0,
                                      !.loading = loaderCalls + 1])
    /\ loaderCalls' = loaderCalls + 1
    /\ loads' = loads + 1

\* _loadStripeJs: the cached client, or a call of the script loader
LoadStripeJs(call) ==
    /\ InitializeBecomes([call EXCEPT !.pc = "loadStripeJs",
                                      !.cached = stripeClient,
                                      !.loading = IF stripeClient # 0 THEN 0
                                                  ELSE loaderCalls + 1])
    /\ loaderCalls' = IF stripeClient # 0 THEN loaderCalls ELSE loaderCalls + 1
    /\ loads' = IF stripeClient # 0 THEN loads ELSE loads + 1

\* _initializeStripeElement from the Stripe-like check on, for the payment
\* method pm found
AfterPaymentMethod(call, pm) ==
    IF pm \in {"notStripeLike", "noToken", "missing"}
    THEN /\ InitializeBecomes(InitializeCaught(call, "paymentMethod", "Error"))
         /\ UNCHANGED <<loaderCalls, loads>>
    ELSE LoadStripeJs(call)

\* the option check that tells a missing containerId only
OptionsRejectedContainerOnly(options) == options \in {"noStripeocs", "emptyContainerId"}

\* !stripeocs?.containerId || !gatewayId
OptionsRejected(options) == options \in {"noStripeocs", "emptyContainerId", "noGatewayId"}

\* initialize(options) up to its first await, pm the payment method of the
\* state of the integration service; the record of an execute() call made
\* before it is dropped
Initialize(options, pm) ==
    /\ loaderCalls < MaxInitializes
    /\ instances < MaxInitializes
    /\ LET call == [IdleInitialize EXCEPT !.options = options]
       IN  IF OptionsRejected(options)
           THEN /\ InitializeBecomes([call EXCEPT !.pc = "done",
                                                  !.outcome = "NotInitializedError"])
                /\ UNCHANGED <<loaderCalls, loads>>
           ELSE IF pm = "missing"
           THEN /\ InitializeBecomes(InitializeCaught(call, "paymentMethod", "Error"))
                /\ UNCHANGED <<loaderCalls, loads>>
           ELSE IF pm = "noToken"
           THEN /\ InitializeBecomes([call EXCEPT !.pc = "loadPaymentMethod"])
                /\ UNCHANGED <<loaderCalls, loads>>
           ELSE AfterPaymentMethod(call, pm)
    /\ exec' = IdleExecute
    /\ UNCHANGED <<stripeClient, stripeCheckout, selectedMethodId, elements, instances,
                   lastPaymentEvent,
                   overlapVars, billingVars, libraryVars>>

\* loadPaymentMethod of initialize() resolves with a state holding pm
InitializePaymentMethodLoaded(pm) ==
    /\ init.pc = "loadPaymentMethod"
    /\ AfterPaymentMethod(init, pm)
    /\ UNCHANGED <<stripeClient, stripeCheckout, selectedMethodId, elements, instances,
                   exec, lastPaymentEvent,
                   overlapVars, billingVars, libraryVars>>

\* an awaited call of initialize() rejects: loadPaymentMethod, getStripeClient,
\* getStripeCheckout, loadActions or updateEmail
InitializeStepRejects(thrown) ==
    /\ init.pc \in {"loadPaymentMethod", "loadStripeJs", "getStripeCheckout",
                    "loadActions", "updateEmail"}
    /\ init.pc = "loadStripeJs" => init.cached = 0
    /\ InitializeBecomes(InitializeCaught(init, init.pc, thrown))
    /\ UNCHANGED <<stripeClient, stripeCheckout, selectedMethodId, elements, loaderCalls, loads,
                   instances, exec, lastPaymentEvent,
                   overlapVars, billingVars, libraryVars>>

\* _loadStripeJs resolves: the client is stored and getStripeCheckout called
StripeJsLoaded ==
    /\ init.pc = "loadStripeJs"
    /\ stripeClient' = IF init.cached # 0 THEN init.cached ELSE init.loading
    /\ InitializeBecomes([init EXCEPT !.pc = "getStripeCheckout"])
    /\ UNCHANGED <<stripeCheckout, selectedMethodId, elements, loaderCalls, loads, instances,
                   exec, lastPaymentEvent,
                   overlapVars, billingVars, libraryVars>>

\* a getStripeCheckout continuation that mounts the payment element of the
\* new instance and listens to it before the actions are asked for
StripeCheckoutCreatedMounted ==
    /\ init.pc = "getStripeCheckout"
    /\ stripeCheckout' = instances + 1
    /\ instances' = instances + 1
    /\ elements' = [elements EXCEPT ![instances + 1] =
                        [@ EXCEPT !.state = "mounted", !.mounts = @ + 1,
                                  !.listening = TRUE]]
    /\ InitializeBecomes([init EXCEPT !.pc = "loadActions"])
    /\ UNCHANGED <<stripeClient, selectedMethodId, loaderCalls, loads, exec,
                   lastPaymentEvent,
                   overlapVars, billingVars, libraryVars>>

\* getStripeCheckout resolves with a new checkout instance: it is stored and
\* its actions are asked for
StripeCheckoutCreated ==
    /\ init.pc = "getStripeCheckout"
    /\ stripeCheckout' = instances + 1
    /\ instances' = instances + 1
    /\ InitializeBecomes([init EXCEPT !.pc = "loadActions"])
    /\ UNCHANGED <<stripeClient, selectedMethodId, elements, loaderCalls, loads, exec,
                   lastPaymentEvent,
                   overlapVars, billingVars, libraryVars>>

\* loadActions of _initializeStripeElement resolves; without actions, or with
\* an error, PaymentMethodFailedError is thrown
InitializeActionsLoaded(ok) ==
    /\ init.pc = "loadActions"
    /\ InitializeBecomes(IF ok THEN [init EXCEPT !.pc = "updateEmail"]
                               ELSE InitializeCaught(init, "loadActions", "Error"))
    /\ UNCHANGED <<stripeClient, stripeCheckout, selectedMethodId, elements, loaderCalls, loads,
                   instances, exec, lastPaymentEvent,
                   overlapVars, billingVars, libraryVars>>

\* updateEmail resolves: the payment element is fetched or created, mounted
\* and listened to, and adaptive pricing started; without an element
\* NotInitializedError is thrown
EmailUpdated(created) ==
    /\ init.pc = "updateEmail"
    /\ LET k == stripeCheckout
           existing == getPaymentElement(k)
           element == IF existing # 0 THEN existing
                      ELSE IF k # 0 /\ created THEN k ELSE 0
       IN  IF element = 0
           THEN /\ InitializeBecomes(InitializeCaught(init, "paymentElement", "Error"))
                /\ UNCHANGED elements
           ELSE /\ elements' = [elements EXCEPT ![element] =
                                   [@ EXCEPT !.state = "mounted", !.mounts = @ + 1,
                                             !.listening = TRUE]]
                /\ InitializeBecomes([init EXCEPT !.pc = "adaptivePricing"])
    /\ UNCHANGED <<stripeClient, stripeCheckout, selectedMethodId, loaderCalls, loads, instances,
                   exec, lastPaymentEvent,
                   overlapVars, billingVars, libraryVars>>

\* _initAdaptivePricing settles: whatever failed in it (loading the actions,
\* getSession, the currency selector) was caught there and logged
AdaptivePricingSettled(failed) ==
    /\ init.pc = "adaptivePricing"
    /\ InitializeBecomes([init EXCEPT !.pc = "done", !.outcome = "resolved",
                                      !.pricing = IF failed THEN "failed" ELSE "ok"])
    /\ UNCHANGED <<stripeClient, stripeCheckout, selectedMethodId, elements, loaderCalls, loads,
                   instances, exec, lastPaymentEvent,
                   overlapVars, billingVars, libraryVars>>

\* a deinitialize() that leaves the selected method as it is
DeinitializeKeepsSelection ==
    /\ LET element == getPaymentElement(stripeCheckout)
       IN  elements' = IF element = 0 THEN elements
                       ELSE [elements EXCEPT ![element] =
                                [@ EXCEPT !.state = "destroyed", !.unmounts = @ + 1,
                                          !.destroys = @ + 1, !.listening = FALSE]]
    /\ stripeCheckout' = 0
    /\ stripeClient' = 0
    /\ lastCompleted' = "deinitialize"
    /\ init' = IF init.pc = "done" THEN IdleInitialize ELSE init
    /\ exec' = IF exec.pc = "done" THEN IdleExecute
               ELSE IF exec.pc # "idle" /\ exec.deinitialized = "none"
               THEN [exec EXCEPT !.deinitialized = exec.pc]
               ELSE exec
    /\ loads' = 0
    /\ finalized' = "none"
    /\ lastPaymentEvent' = Undef
    /\ UNCHANGED <<selectedMethodId, loaderCalls, instances, overlapVars, billingVars, libraryVars>>

\* deinitialize(); the records of the calls that settled before it are
\* dropped, an execute() in flight records the step it was at
Deinitialize ==
    /\ LET element == getPaymentElement(stripeCheckout)
       IN  elements' = IF element = 0 THEN elements
                       ELSE [elements EXCEPT ![element] =
                                [@ EXCEPT !.state = "destroyed", !.unmounts = @ + 1,
                                          !.destroys = @ + 1, !.listening = FALSE]]
    /\ stripeCheckout' = 0
    /\ stripeClient' = 0
    /\ selectedMethodId' = Undef
    /\ lastCompleted' = "deinitialize"
    /\ init' = IF init.pc = "done" THEN IdleInitialize ELSE init
    /\ exec' = IF exec.pc = "done" THEN IdleExecute
               ELSE IF exec.pc # "idle" /\ exec.deinitialized = "none"
               THEN [exec EXCEPT !.deinitialized = exec.pc]
               ELSE exec
    /\ loads' = 0
    /\ finalized' = "none"
    /\ lastPaymentEvent' = Undef
    /\ UNCHANGED <<loaderCalls, instances, overlapVars, billingVars, libraryVars>>

\* a finalize() that releases the handles as deinitialize() does
FinalizeReleases ==
    /\ finalized' = "OrderFinalizationNotRequiredError"
    /\ stripeCheckout' = 0
    /\ stripeClient' = 0
    /\ selectedMethodId' = Undef
    /\ init' = IF init.pc = "done" THEN IdleInitialize ELSE init
    /\ exec' = IF exec.pc = "done" THEN IdleExecute ELSE exec
    /\ UNCHANGED <<elements, loaderCalls, loads, instances, lastCompleted, lastPaymentEvent,
                   overlapVars, billingVars, libraryVars>>

\* finalize(): rejects with OrderFinalizationNotRequiredError; the records of
\* the calls that settled before it are dropped
Finalize ==
    /\ finalized' = "OrderFinalizationNotRequiredError"
    /\ init' = IF init.pc = "done" THEN IdleInitialize ELSE init
    /\ exec' = IF exec.pc = "done" THEN IdleExecute ELSE exec
    /\ UNCHANGED <<stripeClient, stripeCheckout, selectedMethodId, elements, loaderCalls,
                   loads, instances, lastCompleted, lastPaymentEvent,
                   overlapVars, billingVars, libraryVars>>

\* the change events of a payment element: a payment event of some type,
\* collapsed or not, or an event that is no payment event
ChangeEvents ==
    { [payment |-> TRUE, collapsed |-> c, type |-> t] :
        c \in BOOLEAN, t \in {"card", "klarna"} }
    \cup { [payment |-> FALSE, collapsed |-> FALSE, type |-> Undef] }

\* _onStripeElementChange: the selection after a change event
onStripeElementChangeCollapsed(selected, event) ==
    IF ~event.payment THEN selected ELSE event.type

onStripeElementChange(selected, event) ==
    IF ~event.payment \/ event.collapsed THEN selected ELSE event.type

\* a mounted payment element fires a change event
ElementChange(k, event) ==
    /\ elements[k].state = "mounted"
    /\ elements[k].listening
    /\ selectedMethodId' = onStripeElementChange(selectedMethodId, event)
    /\ finalized' = "none"
    /\ UNCHANGED <<stripeClient, stripeCheckout, elements, loaderCalls, loads, instances,
                   init, exec, lastCompleted, overlapVars, billingVars, libraryVars>>
    /\ lastPaymentEvent' = IF event.payment /\ ~event.collapsed THEN event.type
                           ELSE lastPaymentEvent

\* the payment methods execute() tells apart in the state it reads
ExecutePaymentMethods == { "missing", "noToken", "ok" }

\* the gatewayId and methodId of the payment of an order request: both
\* given, gatewayId missing or empty, methodId missing or empty
ExecuteArguments ==
    { <<"stripeocs", "checkout_session">>,
      <<Undef, "checkout_session">>, <<"", "checkout_session">>,
      <<"stripeocs", Undef>>, <<"stripeocs", "">> }

\* what submitPayment can reject with: a value that is no request error, a
\* request error that asks for no additional action, and one that does
PaymentErrors == { "notRequestError", "requestError", "additionalAction" }

\* the token of additional_action_required.data, when the body has one
ActionTokens == { Undef, "actionToken" }

\* the sessions confirm() can return: without id, with an empty or a
\* non-empty id; without status or with payment status paid or unpaid
Sessions ==
    { [id |-> i, status |-> st] : i \in {Undef, "", "sessionId"},
                                  st \in {Undef, "paid", "unpaid"} }

\* execute() rejects with err
ExecuteRejected(call, err) ==
    [call EXCEPT !.pc = "done", !.outcome = "rejected", !.error = err]

\* _getPaymentPayload(methodId, token)
getPaymentPayload(methodId, token) ==
    [methodId |-> methodId, method |-> selectedMethodId, token |-> token, confirm |-> FALSE]

\* an action of execute(): the call becomes next.
\* The record of the initialize() call made before it is dropped.
ExecuteBecomes(next) ==
    /\ exec' = next
    /\ init' = IdleInitialize
    /\ finalized' = "none"
    /\ UNCHANGED <<stripeClient, stripeCheckout, selectedMethodId, elements, loaderCalls, loads,
                   instances, lastCompleted, lastPaymentEvent,
                   overlapVars, billingVars, libraryVars>>

\* guards that look at the arguments before the client handle
ExecuteGuardErrorArgumentsFirst(client, gatewayId, methodId) ==
    IF ~Truthy(gatewayId) \/ ~Truthy(methodId) THEN "InvalidArgumentError"
    ELSE IF client = 0 THEN "NotInitializedError"
    ELSE "none"

\* guards that look at gatewayId only
ExecuteGuardErrorGatewayOnly(client, gatewayId, methodId) ==
    IF client = 0 THEN "NotInitializedError"
    ELSE IF ~Truthy(gatewayId) THEN "InvalidArgumentError"
    ELSE "none"

\* the guards of execute(): what it throws before doing anything, "none" when
\* it goes on
ExecuteGuardError(client, gatewayId, methodId) ==
    IF client = 0 THEN "NotInitializedError"
    ELSE IF ~Truthy(gatewayId) \/ ~Truthy(methodId) THEN "InvalidArgumentError"
    ELSE "none"

\* a first step that applies store credit whatever the checkout says
FirstStepAlwaysCredit(credit) == "applyStoreCredit"

\* the first awaited step of execute(): applyStoreCredit when the checkout
\* has isStoreCreditApplied, else the payment method load
FirstStep(credit) == IF credit THEN "applyStoreCredit" ELSE "loadPaymentMethod"

\* execute(orderRequest) up to its first await; the state of the integration
\* service it reads has isStoreCreditApplied = credit and payment method pm
Execute(gatewayId, methodId, credit, pm) ==
    /\ exec.pc \in {"idle", "done"}
    /\ LET call == [IdleExecute EXCEPT !.gatewayId = gatewayId, !.methodId = methodId,
                                       !.after = lastCompleted, !.client = stripeClient]
           error == ExecuteGuardError(stripeClient, gatewayId, methodId)
       IN  IF error # "none"
           THEN ExecuteBecomes(ExecuteRejected(call, error))
           ELSE ExecuteBecomes([call EXCEPT !.pc = FirstStep(credit),
                                            !.credit = credit, !.state = pm,
                                            !.steps = <<FirstStep(credit)>>])

\* applyStoreCredit, loadPaymentMethod or submitOrder resolves and the next
\* step is called; after submitOrder the payment method is read from the
\* state execute() started with and the payment submitted
ExecuteStepResolves ==
    /\ exec.pc \in {"applyStoreCredit", "loadPaymentMethod", "submitOrder"}
    /\ IF exec.pc = "applyStoreCredit"
       THEN ExecuteBecomes([exec EXCEPT !.pc = "loadPaymentMethod",
                                        !.steps = Append(@, "loadPaymentMethod")])
       ELSE IF exec.pc = "loadPaymentMethod"
       THEN ExecuteBecomes([exec EXCEPT !.pc = "submitOrder",
                                        !.steps = Append(@, "submitOrder")])
       ELSE IF exec.state = "missing"
       THEN ExecuteBecomes(ExecuteRejected(exec, "MissingDataError"))
       ELSE ExecuteBecomes(
              [exec EXCEPT !.pc = "submitPayment",
                           !.steps = Append(@, "submitPayment"),
                           !.payloads = Append(@, getPaymentPayload(exec.methodId,
                               IF exec.state = "noToken" THEN "" ELSE "clientToken"))])

\* applyStoreCredit, loadPaymentMethod or submitOrder rejects
ExecuteStepRejects ==
    /\ exec.pc \in {"applyStoreCredit", "loadPaymentMethod", "submitOrder"}
    /\ ExecuteBecomes(ExecuteRejected(exec, exec.pc))

\* a submitPayment resolves, the first or the second
PaymentSubmitted ==
    /\ exec.pc \in {"submitPayment", "submitPaymentAgain"}
    /\ ExecuteBecomes([exec EXCEPT !.pc = "done", !.outcome = "resolved"])

\* a test that takes every request error for an additional action
isAdditionalActionAnyRequestError(err) == err # "notRequestError"

\* isRequestError(error) && isAdditionalActionError(error.body.errors)
isAdditionalAction(err) == err = "additionalAction"

\* the first submitPayment rejects: _processAdditionalAction up to its first
\* await
PaymentRejected(err, token) ==
    /\ exec.pc = "submitPayment"
    /\ err # "additionalAction" => token = Undef
    /\ LET call == [exec EXCEPT !.first = err]
       IN  IF ~isAdditionalAction(err)
           THEN ExecuteBecomes(ExecuteRejected(call, err))
           ELSE IF stripeCheckout = 0
           THEN ExecuteBecomes(ExecuteRejected(call, "NotInitializedError"))
           ELSE ExecuteBecomes([call EXCEPT !.pc = "loadActions", !.token = token])

\* loadActions of _confirmStripePaymentOrThrow settles: with actions confirm
\* is called, otherwise PaymentMethodFailedError is thrown
ExecuteActionsLoaded(ok) ==
    /\ exec.pc = "loadActions"
    /\ IF ok
       THEN ExecuteBecomes([exec EXCEPT !.pc = "confirm", !.steps = Append(@, "confirm")])
       ELSE ExecuteBecomes(ExecuteRejected(exec, "PaymentMethodFailedError"))

\* a token that falls back to the error body only for a missing session id
SecondTokenNullish(sessionId, token) == IF sessionId # Undef THEN sessionId ELSE token

\* checkoutSessionId || token
SecondToken(sessionId, token) == IF Truthy(sessionId) THEN sessionId ELSE token

\* confirm resolves with a session: the payment is submitted again, with the
\* id of the session or else the token of the error body
Confirmed(session) ==
    /\ exec.pc = "confirm"
    /\ ExecuteBecomes(
          [exec EXCEPT !.pc = "submitPaymentAgain",
                       !.session = <<session>>,
                       !.confirm = "session",
                       !.steps = Append(@, "submitPayment"),
                       !.payloads = Append(@, getPaymentPayload(exec.methodId,
                           SecondToken(session.id, exec.token)))])

\* confirm resolves with an error or without session (PaymentMethodFailedError
\* is thrown), or rejects
\* what confirm does other than returning a session alone: it rejects, or
\* it resolves with an error, with an error and a session, or with neither
ConfirmFailures == { "rejects", "error", "errorAndSession", "nothing" }

ConfirmFailedSessionOnly(result) ==
    /\ exec.pc = "confirm"
    /\ IF result = "errorAndSession"
       THEN ExecuteBecomes(
               [exec EXCEPT !.pc = "submitPaymentAgain",
                            !.session = << [id |-> "sessionId", status |-> "unpaid"] >>,
                            !.confirm = result,
                            !.steps = Append(@, "submitPayment"),
                            !.payloads = Append(@, getPaymentPayload(exec.methodId,
                                SecondToken("sessionId", exec.token)))])
       ELSE ExecuteBecomes(ExecuteRejected([exec EXCEPT !.confirm = result],
                              IF result = "rejects" THEN "confirm"
                              ELSE "PaymentMethodFailedError"))

ConfirmFailed(result) ==
    /\ exec.pc = "confirm"
    /\ ExecuteBecomes(ExecuteRejected([exec EXCEPT !.confirm = result],
                                      IF result = "rejects" THEN "confirm"
                                      ELSE "PaymentMethodFailedError"))

\* stripeIntegrationService.throwPaymentConfirmationProceedMessage(): what
\* it throws
throwPaymentConfirmationProceedMessage == "PaymentMethodFailedError"

\* a catch block that rethrows the second error whatever the session says
PaymentRejectedAgainRaw(err) ==
    /\ exec.pc = "submitPaymentAgain"
    /\ ExecuteBecomes(ExecuteRejected(exec, "second." \o err))

\* a catch block that handles an additional action of the second error as
\* that of the first
PaymentRejectedAgainRetried(err) ==
    /\ exec.pc = "submitPaymentAgain"
    /\ IF err = "additionalAction"
       THEN ExecuteBecomes([exec EXCEPT !.pc = "loadActions"])
       ELSE ExecuteBecomes(ExecuteRejected(exec, "second." \o err))

\* the second submitPayment rejects: the payment status of the session is
\* read (a TypeError without status) and decides what execute() rejects with
PaymentRejectedAgain(err) ==
    /\ exec.pc = "submitPaymentAgain"
    /\ LET status == exec.session[1].status
       IN  ExecuteBecomes(ExecuteRejected(exec,
              IF status = Undef THEN "TypeError"
              ELSE IF status = "paid" THEN throwPaymentConfirmationProceedMessage
              ELSE "second." \o err))

\* ------------------------------------------------------------------------
\* ConsignmentSelector
\* ------------------------------------------------------------------------
\* The statuses and errors of the operations made per consignment are kept
\* per id, in a JavaScript object: here a sequence of entries in insertion
\* order, no id twice.

ConsignmentIds == { "foo", "bar" }

\* the value an id maps to, undefined when the id is not tracked
Lookup(map, id) ==
    IF \E i \in 1..Len(map) : map[i].id = id
    THEN map[CHOOSE i \in 1..Len(map) : map[i].id = id].value
    ELSE Undef

Tracked(values) ==
    { <<>> }
    \cup { << [id |-> a, value |-> v] >> : a \in ConsignmentIds, v \in values }
    \cup UNION { { << [id |-> a, value |-> v], [id |-> b, value |-> w] >> :
                     b \in ConsignmentIds \ {a}, v \in values, w \in values } :
                   a \in ConsignmentIds }

StatusMaps == Tracked(BOOLEAN)

ErrorMaps == Tracked({ Undef, "error1", "error2" })

ShippingAddresses ==
    { [address1 |-> "12345 Testing Way", city |-> "Some City"],
      [address1 |-> "foo", city |-> "Some City"],
      [address1 |-> "12345 Testing Way", city |-> "Other City"] }

StoredAddresses ==
    { a \in ShippingAddresses : a.city = "Some City" }

PhysicalItemIds == { "item1", "item2" }

Consignment(id, address, lineItemIds) ==
    [id |-> id, shippingAddress |-> address, lineItemIds |-> lineItemIds]

\* state.data: absent, or up to two consignments, no id twice
ConsignmentData(addresses, assignments) ==
    { <<>>, << <<>> >> }
    \cup { << << Consignment(a, x, l) >> >> :
             a \in ConsignmentIds, x \in addresses, l \in assignments }
    \cup UNION { { << << Consignment(a, x, l), Consignment(b, y, m) >> >> :
                     b \in ConsignmentIds \ {a}, x \in addresses, y \in addresses,
                     l \in assignments, m \in assignments } :
                   a \in ConsignmentIds }

emptyState ==
    [statuses |-> [isUpdating |-> <<>>, isUpdatingShippingOption |-> <<>>,
                   isDeleting |-> <<>>, isCreating |-> FALSE],
     errors |-> [updateError |-> <<>>, updateShippingOptionError |-> <<>>,
                 deleteError |-> <<>>, createError |-> Undef]]

StatusNames == { "isUpdating", "isDeleting", "isUpdatingShippingOption" }

ErrorNames == { "updateError", "updateShippingOptionError", "deleteError" }

\* the slices of the runs: one status map or one error map filled, with some
\* consignments; or no status and no error, with consignments that hold
\* line items
StatusStates ==
    { [data |-> d,
       statuses |-> [emptyState.statuses EXCEPT ![name] = map, !.isCreating = creating],
       errors |-> emptyState.errors] :
      d \in ConsignmentData(StoredAddresses, { <<>> }), name \in StatusNames,
      map \in StatusMaps, creating \in BOOLEAN }

ErrorStates ==
    { [data |-> d,
       statuses |-> emptyState.statuses,
       errors |-> [emptyState.errors EXCEPT ![name] = map, !.createError = createError] ] :
      d \in ConsignmentData(StoredAddresses, { <<>> }), name \in ErrorNames,
      map \in ErrorMaps, createError \in { Undef, "createError" } }

AssignmentStates ==
    { [data |-> d, statuses |-> emptyState.statuses, errors |-> emptyState.errors] :
      d \in ConsignmentData({ CHOOSE a \in StoredAddresses : TRUE },
                            { <<>>, << "item1" >>, << "item2" >>, << "item1", "item2" >> }) }

PhysicalItem(id) == [id |-> id]

\* cartSelector.getCart(): no cart, a cart without physical items, or a cart
\* of up to two physical items
\* (an optional value is a sequence of length 0 or 1: null is <<>>)
Carts ==
    { <<>> }
    \cup { << [physicalItems |-> items] >> :
             items \in { <<>>, << <<>> >>, << << PhysicalItem("item1") >> >>,
                         << << PhysicalItem("item2") >> >>,
                         << << PhysicalItem("item1"), PhysicalItem("item2") >> >>,
                         << << PhysicalItem("item2"), PhysicalItem("item1") >> >> } }

NoSelection == [method |-> "none", argument |-> Undef, result |-> Undef]

\* no selector has been made: the state of the other components' runs
SelectorIdle ==
    /\ consignmentState = [data |-> <<>>, statuses |-> emptyState.statuses,
                           errors |-> emptyState.errors]
    /\ cart = <<>>
    /\ selection = NoSelection

\* ------------------------------------------------------------------------
\* StripeUPEScriptLoader
\* ------------------------------------------------------------------------

ClientCalls == 1..MaxClientCalls

\* stripePublishableKey, stripeAccount, locale
ClientArguments == { <<"pk_a", "acct_a", Undef>>, <<"pk_b", "acct_b", "en">> }

ElementsOptions == { "optionsA", "optionsB" }

IdleClientCall ==
    [pc |-> "idle", key |-> Undef, account |-> Undef, locale |-> Undef,
     cached |-> FALSE, overlapped |-> FALSE, rejected |-> Undef, client |-> <<>>]

NoElementsCall == [n |-> 0, client |-> 0, options |-> Undef, elements |-> <<>>, cached |-> FALSE]

\* the host window before the loader is used
LoaderIdle ==
    /\ windowStripe = FALSE
    /\ bcStripeClient = <<>>
    /\ bcStripeElements = <<>>
    /\ scriptLoads = 0
    /\ clientsConstructed = 0
    /\ elementsConstructed = 0
    /\ clientCalls = [c \in ClientCalls |-> IdleClientCall]
    /\ elementsCall = NoElementsCall

\* stripe(key, { stripeAccount, locale, betas, apiVersion }): the n-th client
\* made on the window; the key is the one of the source, not the argument
stripe(n, account, locale) ==
    [id |-> n, key |-> "pk_test_iyRKkVUt0YWpJ3Lq7mfsw3VW008KiFDH4s",
     stripeAccount |-> account, locale |-> locale]

\* the call made next: calls are numbered in the order they are made
NextClientCall ==
    IF \A c \in ClientCalls : clientCalls[c].pc # "idle" THEN 0
    ELSE CHOOSE c \in ClientCalls :
           /\ clientCalls[c].pc = "idle"
           /\ \A d \in ClientCalls : d < c => clientCalls[d].pc # "idle"

getStripeClientPerAccount(c, key, account, locale) ==
    /\ c = NextClientCall
    /\ LET call == [IdleClientCall EXCEPT !.key = key, !.account = account, !.locale = locale,
                      !.overlapped = \E d \in ClientCalls : clientCalls[d].pc = "loadScript"]
           others == [d \in ClientCalls |->
                        IF clientCalls[d].pc = "loadScript"
                        THEN [clientCalls[d] EXCEPT !.overlapped = TRUE] ELSE clientCalls[d]]
       IN  IF bcStripeClient # <<>> /\ bcStripeClient[1].stripeAccount = account
           THEN /\ clientCalls' = [others EXCEPT ![c] =
                       [call EXCEPT !.pc = "done", !.cached = TRUE, !.client = bcStripeClient]]
                /\ UNCHANGED scriptLoads
           ELSE /\ clientCalls' = [others EXCEPT ![c] = [call EXCEPT !.pc = "loadScript"]]
                /\ scriptLoads' = scriptLoads + 1
    /\ UNCHANGED <<windowStripe, bcStripeClient, bcStripeElements, clientsConstructed,
                   elementsConstructed, elementsCall, selectorVars, mergeVars, languageVars, billingVars, stripeVars>>

\* getStripeClient(key, account, locale) up to its first await: the stored
\* client is returned, or the script is asked for
getStripeClient(c, key, account, locale) ==
    /\ c = NextClientCall
    /\ LET call == [IdleClientCall EXCEPT !.key = key, !.account = account, !.locale = locale,
                      !.overlapped = \E d \in ClientCalls : clientCalls[d].pc = "loadScript"]
           others == [d \in ClientCalls |->
                        IF clientCalls[d].pc = "loadScript"
                        THEN [clientCalls[d] EXCEPT !.overlapped = TRUE] ELSE clientCalls[d]]
       IN  IF bcStripeClient # <<>>
           THEN /\ clientCalls' = [others EXCEPT ![c] =
                       [call EXCEPT !.pc = "done", !.cached = TRUE, !.client = bcStripeClient]]
                /\ UNCHANGED scriptLoads
           ELSE /\ clientCalls' = [others EXCEPT ![c] = [call EXCEPT !.pc = "loadScript"]]
                /\ scriptLoads' = scriptLoads + 1
    /\ UNCHANGED <<windowStripe, bcStripeClient, bcStripeElements, clientsConstructed,
                   elementsConstructed, elementsCall, selectorVars, mergeVars, languageVars, billingVars, stripeVars>>

ScriptLoadedUnchecked(c, defines) ==
    /\ clientCalls[c].pc = "loadScript"
    /\ windowStripe' = (windowStripe \/ defines)
    /\ LET made == stripe(clientsConstructed + 1, clientCalls[c].account,
                          clientCalls[c].locale)
       IN  /\ clientsConstructed' = clientsConstructed + 1
           /\ bcStripeClient' = << made >>
           /\ clientCalls' = [clientCalls EXCEPT ![c].pc = "done",
                                ![c].rejected = IF windowStripe' THEN Undef
                                                ELSE "PaymentMethodClientUnavailableError",
                                ![c].client = IF windowStripe' THEN << made >> ELSE <<>>]
    /\ UNCHANGED <<bcStripeElements, scriptLoads, elementsConstructed, elementsCall,
                   selectorVars, mergeVars, languageVars, billingVars, stripeVars>>

\* loadScript resolved: load() throws if the window has no Stripe, else the
\* client is constructed and stored on the window
ScriptLoaded(c, defines) ==
    /\ clientCalls[c].pc = "loadScript"
    /\ windowStripe' = (windowStripe \/ defines)
    /\ IF ~windowStripe'
       THEN /\ clientCalls' = [clientCalls EXCEPT ![c].pc = "done",
                                 ![c].rejected = "PaymentMethodClientUnavailableError"]
            /\ UNCHANGED <<bcStripeClient, clientsConstructed>>
       ELSE LET made == stripe(clientsConstructed + 1, clientCalls[c].account,
                               clientCalls[c].locale)
            IN  /\ clientsConstructed' = clientsConstructed + 1
                /\ bcStripeClient' = << made >>
                /\ clientCalls' = [clientCalls EXCEPT ![c].pc = "done",
                                     ![c].client = << made >>]
    /\ UNCHANGED <<bcStripeElements, scriptLoads, elementsConstructed, elementsCall,
                   selectorVars, mergeVars, languageVars, billingVars, stripeVars>>

\* loadScript rejected: getStripeClient rejects with that error
ScriptFailed(c) ==
    /\ clientCalls[c].pc = "loadScript"
    /\ clientCalls' = [clientCalls EXCEPT ![c].pc = "done", ![c].rejected = "loadScriptError"]
    /\ UNCHANGED <<windowStripe, bcStripeClient, bcStripeElements, scriptLoads,
                   clientsConstructed, elementsConstructed, elementsCall,
                   selectorVars, mergeVars, languageVars, billingVars, stripeVars>>

\* getElements(stripeClient, options), of a client made on the window
getElements(client, options) ==
    /\ elementsCall.n < MaxClientCalls
    /\ client \in 1..clientsConstructed
    /\ IF bcStripeElements = <<>>
       THEN LET stripeElements == [id |-> elementsConstructed + 1, client |-> client,
                                   options |-> options]
            IN  /\ elementsConstructed' = elementsConstructed + 1
                /\ bcStripeElements' = << stripeElements >>
                /\ elementsCall' = [n |-> elementsCall.n + 1, client |-> client,
                                    options |-> options, elements |-> << stripeElements >>,
                                    cached |-> FALSE]
       ELSE /\ elementsCall' = [n |-> elementsCall.n + 1, client |-> client,
                                options |-> options, elements |-> bcStripeElements,
                                cached |-> TRUE]
            /\ UNCHANGED <<elementsConstructed, bcStripeElements>>
    /\ UNCHANGED <<windowStripe, bcStripeClient, scriptLoads, clientsConstructed, clientCalls,
                   selectorVars, mergeVars, languageVars, billingVars, stripeVars>>

\* ------------------------------------------------------------------------
\* mergeOrPush
\* ------------------------------------------------------------------------
\* An element of an array is a plain object, with its own properties, or a
\* primitive value. An array is an object with an identity: ref names the
\* array object, items is what it holds.

PlainObject(props) == [plain |-> TRUE, props |-> props, prim |-> Undef]

Primitive(v) == [plain |-> FALSE, props |-> EmptyObject, prim |-> v]

\* !item is false
Present(item) == item.plain \/ Truthy(item.prim)

isPlainObject(value) == value.plain

\* objectMerge(existing, item): the properties of both, those of item last
objectMerge(existing, item) == PlainObject(Spread(existing.props, item.props))

\* lodash pick(item, 'id')
pick(item, key) ==
    IF key \in DOMAIN item.props THEN (key :> item.props[key]) ELSE EmptyObject

\* lodash pickBy(object): the properties whose value is truthy
pickBy(object) == [k \in { j \in DOMAIN object : Truthy(object[j]) } |-> object[k]]

\* lodash matches(source): an empty source matches every value
Matches(value, source) ==
    \A k \in DOMAIN source : k \in DOMAIN value.props /\ value.props[k] = source[k]

\* lodash findIndex(array, source): 0 stands for -1, positions count from 1
findIndex(items, source) ==
    LET matching == { i \in 1..Len(items) : Matches(items[i], source) }
    IN  IF matching = {} THEN 0 ELSE CHOOSE i \in matching : \A j \in matching : i <= j

mergeOrPush(array, item, predicate) ==
    IF ~Present(item) THEN array
    ELSE LET defaultPredicate == pick(item, "id")
             derivedPredicate == IF predicate # <<>> THEN pickBy(predicate[1])
                                 ELSE defaultPredicate
             index == findIndex(array.items, derivedPredicate)
             existingItem == array.items[index]
         IN  [ref |-> array.ref + 1,
              items |-> IF index = 0 THEN Append(array.items, item)
                        ELSE [array.items EXCEPT ![index] =
                                IF isPlainObject(existingItem) /\ isPlainObject(item)
                                THEN objectMerge(existingItem, item)
                                ELSE item]]

MergeElements ==
    { PlainObject(("id" :> "1")), PlainObject(("id" :> "2") @@ ("name" :> "x")),
      PlainObject(("name" :> "y")), Primitive("a") }

MergeItems ==
    MergeElements
    \cup { PlainObject(("id" :> "1") @@ ("name" :> "y")), PlainObject(("id" :> "3")) }
    \cup { Primitive(Undef), Primitive("null"), Primitive("") }

MergePredicates ==
    { <<>>, << ("name" :> "x") >>, << ("id" :> "1") @@ ("name" :> "") >> }

MergeArrays ==
    { [ref |-> 1, items |-> items] :
      items \in { <<>> } \cup { << a >> : a \in MergeElements }
                 \cup { << a, b >> : a \in MergeElements, b \in MergeElements } }

\* mergeOrPush has not been called: the state of the other components' runs
MergeIdle ==
    /\ mergeArray = [ref |-> 1, items |-> <<>>]
    /\ mergeItem = Primitive(Undef)
    /\ mergePredicate = <<>>
    /\ mergeResult = <<>>

MergeOrPush ==
    /\ mergeResult = <<>>
    /\ mergeResult' = << mergeOrPush(mergeArray, mergeItem, mergePredicate) >>
    /\ UNCHANGED <<mergeArray, mergeItem, mergePredicate, selectorVars, loaderVars,
                   languageVars, billingVars, stripeVars>>

\* ------------------------------------------------------------------------
\* LanguageService
\* ------------------------------------------------------------------------

KEY_PREFIX == "optimized_checkout"

DEFAULT_LOCALE == "en"

LanguageKeys == { "new_key", "existing_key" }

\* language strings: plain, with a placeholder, with a number the locale
\* formats, and with a quoted attribute
Messages == { "Hello", "Hi {name}", "{n, number}", "a='b'" }

Locales == { "en", "fr" }

TranslationDatas == { EmptyObject, ("name" :> "Ann"), ("name" :> "null"), ("n" :> "1000") }

\* the service no key of which has a language string
LanguageIdle ==
    /\ isCspNonceExperimentEnabled = TRUE
    /\ translations = [k \in LanguageKeys |-> Undef]
    /\ locales = [k \in LanguageKeys |-> Undef]
    /\ formatters = [k \in LanguageKeys |-> <<>>]
    /\ mapped = <<>>
    /\ translated = [key |-> Undef, data |-> EmptyObject, result |-> Undef]

\* _transformConfig: every key that has a language string has a locale
LanguageConstructed ==
    /\ isCspNonceExperimentEnabled \in BOOLEAN
    /\ translations \in [LanguageKeys -> Messages \cup { Undef }]
    /\ locales \in [LanguageKeys -> Locales \cup { Undef }]
    /\ \A k \in LanguageKeys : translations[k] = Undef <=> locales[k] = Undef
    /\ formatters = [k \in LanguageKeys |-> <<>>]
    /\ mapped = <<>>
    /\ translated = [key |-> Undef, data |-> EmptyObject, result |-> Undef]

\* `${KEY_PREFIX}.${key}`
Prefixed(key) == KEY_PREFIX \o "." \o key

\* _transformData: null and undefined become ''
transformData(data) ==
    [k \in DOMAIN data |-> IF data[k] \in { "null", Undef } THEN "" ELSE data[k]]

\* new IntlMessageFormat(message, locale) / new MessageFormat(locale).compile(message):
\* a formatter is made of one message and one locale, the locale of the
\* runtime when none is given
Formatter(message, locale) ==
    [message |-> message, locale |-> IF locale = Undef THEN DEFAULT_LOCALE ELSE locale]

\* formatter.format(data) of IntlMessageFormat, with the catch of translate:
\* a missing value is a FormatError, answered by the original message
IntlFormat(formatter, data) ==
    CASE formatter.message = "Hi {name}" ->
           IF "name" \in DOMAIN data THEN "Hi " \o data.name ELSE formatter.message
      [] formatter.message = "{n, number}" ->
           IF "n" \notin DOMAIN data THEN formatter.message
           ELSE IF formatter.locale = "fr" THEN "1 000" ELSE "1,000"
      [] formatter.message = "a=''b''" -> "a='b'"
      [] OTHER -> formatter.message

\* the function MessageFormat compiles
CompiledFormat(formatter, data) ==
    CASE formatter.message = "Hi {name}" -> "Hi " \o Get(data, "name")
      [] formatter.message = "{n, number}" ->
           IF "n" \notin DOMAIN data THEN "NaN"
           ELSE IF formatter.locale = "fr" THEN "1 000" ELSE "1,000"
      [] OTHER -> formatter.message

\* _escapeSpecialCharacters: (\w+)='([^']*)' becomes $1=''$2''; of the
\* language strings here one has such an attribute
escapeSpecialCharacters(message) ==
    IF message = "a='b'" THEN "a=''b''" ELSE message

\* the formatter translate(key) uses: the cached one, or a new one
FormatterOf(key) ==
    IF formatters[key] # <<>> THEN formatters[key][1]
    ELSE IF isCspNonceExperimentEnabled
    THEN Formatter(escapeSpecialCharacters(translations[key]), locales[key])
    ELSE Formatter(translations[key], locales[key])

\* what translate(key, data) returns
Translation(key, data) ==
    IF translations[key] = Undef THEN Prefixed(key)
    ELSE IF isCspNonceExperimentEnabled THEN IntlFormat(FormatterOf(key), transformData(data))
    ELSE CompiledFormat(FormatterOf(key), transformData(data))

translate(key, data) ==
    /\ translated' = [key |-> key, data |-> data, result |-> Translation(key, data)]
    /\ formatters' = IF translations[key] = Undef THEN formatters
                     ELSE [formatters EXCEPT ![key] = << FormatterOf(key) >>]
    /\ UNCHANGED <<isCspNonceExperimentEnabled, translations, locales, mapped,
                   selectorVars, loaderVars, mergeVars, billingVars, stripeVars>>

\* mapKeys({ [key]: existing })
mapKeys(key, existing) ==
    /\ translations' = [translations EXCEPT ![key] = translations[existing]]
    /\ mapped' = <<key, existing>>
    /\ UNCHANGED <<isCspNonceExperimentEnabled, locales, formatters, translated,
                   selectorVars, loaderVars, mergeVars, billingVars, stripeVars>>

LibraryIdle == SelectorIdle /\ LoaderIdle /\ MergeIdle /\ LanguageIdle

StatusOfEvery(map, id) ==
    IF id = Undef
    THEN \A i \in 1..Len(map) : map[i].value = TRUE
    ELSE \E i \in 1..Len(map) : map[i].id = id /\ map[i].value = TRUE

\* isUpdating(id?), isDeleting(id?), isUpdatingShippingOption(id?)
StatusOf(map, id) ==
    IF id = Undef
    THEN \E i \in 1..Len(map) : map[i].value = TRUE
    ELSE \E i \in 1..Len(map) : map[i].id = id /\ map[i].value = TRUE

isUpdating(state, id) == StatusOf(state.statuses.isUpdating, id)

isDeleting(state, id) == StatusOf(state.statuses.isDeleting, id)

isUpdatingShippingOption(state, id) == StatusOf(state.statuses.isUpdatingShippingOption, id)

isCreating(state) == state.statuses.isCreating

SelectStatus(name, id) ==
    /\ selection.method = "none"
    /\ selection' =
          [method |-> name, argument |-> id,
           result |-> CASE name = "isUpdating" -> isUpdating(consignmentState, id)
                        [] name = "isDeleting" -> isDeleting(consignmentState, id)
                        [] name = "isUpdatingShippingOption" ->
                              isUpdatingShippingOption(consignmentState, id)]
    /\ UNCHANGED <<consignmentState, cart, billingVars, stripeVars, loaderVars, mergeVars,
                   languageVars>>

ErrorOfLatest(map, id) ==
    IF id = Undef
    THEN LET errored == { i \in 1..Len(map) : map[i].value # Undef }
         IN  IF errored = {} THEN Undef
             ELSE map[CHOOSE i \in errored : \A j \in errored : i >= j].value
    ELSE Lookup(map, id)

\* getUpdateError(id?), getDeleteError(id?), getUpdateShippingOptionError(id?)
ErrorOf(map, id) ==
    IF id = Undef
    THEN LET errored == { i \in 1..Len(map) : map[i].value # Undef }
         IN  IF errored = {} THEN Undef
             ELSE map[CHOOSE i \in errored : \A j \in errored : i <= j].value
    ELSE Lookup(map, id)

getUpdateError(state, id) == ErrorOf(state.errors.updateError, id)

getDeleteError(state, id) == ErrorOf(state.errors.deleteError, id)

getUpdateShippingOptionError(state, id) == ErrorOf(state.errors.updateShippingOptionError, id)

getCreateError(state) == state.errors.createError

SelectError(name, id) ==
    /\ selection.method = "none"
    /\ selection' =
          [method |-> name, argument |-> id,
           result |-> CASE name = "getUpdateError" -> getUpdateError(consignmentState, id)
                        [] name = "getDeleteError" -> getDeleteError(consignmentState, id)
                        [] name = "getUpdateShippingOptionError" ->
                              getUpdateShippingOptionError(consignmentState, id)]
    /\ UNCHANGED <<consignmentState, cart, billingVars, stripeVars, loaderVars, mergeVars,
                   languageVars>>

getUnassignedItemsOfFirst(state, cartOrNull) ==
    IF cartOrNull = <<>> \/ cartOrNull[1].physicalItems = <<>> THEN <<>>
    ELSE LET consignments == IF state.data = <<>> THEN <<>> ELSE state.data[1]
             assigned == { id \in PhysicalItemIds :
                             \E i \in 1..Len(consignments) :
                               /\ i = 1
                               /\ \E k \in 1..Len(consignments[i].lineItemIds) :
                                     consignments[i].lineItemIds[k] = id }
             unassigned(item) == item.id \notin assigned
         IN  SelectSeq(cartOrNull[1].physicalItems[1], unassigned)

\* the physical items of the cart that no consignment holds
getUnassignedItems(state, cartOrNull) ==
    IF cartOrNull = <<>> \/ cartOrNull[1].physicalItems = <<>> THEN <<>>
    ELSE LET consignments == IF state.data = <<>> THEN <<>> ELSE state.data[1]
             assigned == { id \in PhysicalItemIds :
                             \E i \in 1..Len(consignments) :
                               \E k \in 1..Len(consignments[i].lineItemIds) :
                                  consignments[i].lineItemIds[k] = id }
             unassigned(item) == item.id \notin assigned
         IN  SelectSeq(cartOrNull[1].physicalItems[1], unassigned)

SelectUnassignedItems ==
    /\ selection.method = "none"
    /\ selection' = [method |-> "getUnassignedItems", argument |-> Undef,
                     result |-> getUnassignedItems(consignmentState, cart)]
    /\ UNCHANGED <<consignmentState, cart, billingVars, stripeVars, loaderVars, mergeVars,
                   languageVars>>

\* two addresses are equal when they are on every field
isShippingAddressEqual(a, b) ==
    \A field \in (DOMAIN a) \cup (DOMAIN b) : Get(a, field) = Get(b, field)

getConsignmentByStreet(state, address) ==
    IF state.data = <<>> THEN <<>>
    ELSE LET consignments == state.data[1]
             matching == { i \in 1..Len(consignments) :
                             consignments[i].shippingAddress.address1 = address.address1 }
         IN  IF matching = {} THEN <<>>
             ELSE << consignments[CHOOSE i \in matching : \A j \in matching : i <= j] >>

\* the first consignment of that address: an optional consignment
getConsignmentByAddress(state, address) ==
    IF state.data = <<>> THEN <<>>
    ELSE LET consignments == state.data[1]
             matching == { i \in 1..Len(consignments) :
                             isShippingAddressEqual(consignments[i].shippingAddress, address) }
         IN  IF matching = {} THEN <<>>
             ELSE << consignments[CHOOSE i \in matching : \A j \in matching : i <= j] >>

isAssigningItems(state, address) ==
    LET consignment == getConsignmentByAddress(state, address)
    IN  IF consignment = <<>> THEN isCreating(state)
        ELSE isUpdating(state, consignment[1].id)

getItemAssignmentError(state, address) ==
    LET consignment == getConsignmentByAddress(state, address)
    IN  IF consignment = <<>> THEN getCreateError(state)
        ELSE getUpdateError(state, consignment[1].id)

SelectByAddress(name, address) ==
    /\ selection.method = "none"
    /\ selection' =
          [method |-> name, argument |-> address,
           result |-> CASE name = "getConsignmentByAddress" ->
                              getConsignmentByAddress(consignmentState, address)
                        [] name = "isAssigningItems" -> isAssigningItems(consignmentState, address)
                        [] name = "getItemAssignmentError" ->
                              getItemAssignmentError(consignmentState, address)]
    /\ UNCHANGED <<consignmentState, cart, billingVars, stripeVars, loaderVars, mergeVars,
                   languageVars>>

\* The life cycle of the strategy, with every input of initialize() and a
\* few of execute(): initialize(), execute() and deinitialize() are called
\* once the previous operation has settled, finalize() at any time. A call
\* that fails its option check reads no state of the integration service, so
\* one state stands for all.
LifecycleArguments == { <<"stripeocs", "checkout_session">>, <<Undef, "checkout_session">> }

LifecycleSessions == { [id |-> "sessionId", status |-> "unpaid"] }

\* ------------------------------------------------------------------------
\* StripeCSPaymentStrategy: initialize() calls that overlap, deinitialize()
\* while they are in flight. The calls are given valid options and a Stripe
\* payment method with a clientToken.
\* ------------------------------------------------------------------------

\* an action of the overlapping call c: it becomes next; what it leaves alone
OverlappingBecomes(c, next) ==
    /\ inits' = [inits EXCEPT ![c] = next]
    /\ UNCHANGED <<selectedMethodId, init, exec, lastCompleted, finalized, lastPaymentEvent,
                   billingVars, libraryVars>>

\* initialize() up to its first await, _loadStripeJs: the client held, or a
\* call of the script loader; the records are taken in order
OverlappingInitialize(c) ==
    /\ inits[c].pc \in {"idle", "done"}
    /\ \A d \in 1..(c - 1) : inits[d].pc # "idle"
    /\ stripeClient = 0 => loaderCalls < MaxInitializes
    /\ OverlappingBecomes(c, [IdleOverlapping EXCEPT
                                 !.pc = "loadStripeJs",
                                 !.cached = stripeClient,
                                 !.loading = IF stripeClient # 0 THEN 0
                                             ELSE loaderCalls + 1])
    /\ loaderCalls' = IF stripeClient # 0 THEN loaderCalls ELSE loaderCalls + 1
    /\ loads' = IF stripeClient # 0 THEN loads ELSE loads + 1
    /\ released' = FALSE
    /\ UNCHANGED <<stripeClient, stripeCheckout, elements, instances, lastLoaded>>

\* an awaited call of the overlapping call c rejects, or loadActions gives
\* no actions: the catch block of initialize() takes it
OverlappingStepRejects(c) ==
    /\ inits[c].pc \in {"loadStripeJs", "getStripeCheckout", "loadActions", "updateEmail"}
    /\ inits[c].pc = "loadStripeJs" => inits[c].cached = 0
    /\ OverlappingBecomes(c, [inits[c] EXCEPT !.pc = "done", !.outcome = "resolved",
                                              !.failedAt = inits[c].pc])
    /\ UNCHANGED <<stripeClient, stripeCheckout, elements, loaderCalls, loads, instances,
                   lastLoaded, released>>

\* a continuation of _loadStripeJs that keeps the client the strategy holds
OverlappingStripeJsLoadedFirstWins(c) ==
    /\ inits[c].pc = "loadStripeJs"
    /\ LET loaded == IF inits[c].cached # 0 THEN inits[c].cached ELSE inits[c].loading
       IN  /\ stripeClient' = IF stripeClient # 0 THEN stripeClient ELSE loaded
           /\ lastLoaded' = loaded
    /\ OverlappingBecomes(c, [inits[c] EXCEPT !.pc = "getStripeCheckout"])
    /\ UNCHANGED <<stripeCheckout, elements, loaderCalls, loads, instances, released>>

\* _loadStripeJs of the overlapping call c resolves: this.stripeClient is
\* assigned and getStripeCheckout called
OverlappingStripeJsLoaded(c) ==
    /\ inits[c].pc = "loadStripeJs"
    /\ LET loaded == IF inits[c].cached # 0 THEN inits[c].cached ELSE inits[c].loading
       IN  /\ stripeClient' = loaded
           /\ lastLoaded' = loaded
    /\ OverlappingBecomes(c, [inits[c] EXCEPT !.pc = "getStripeCheckout"])
    /\ UNCHANGED <<stripeCheckout, elements, loaderCalls, loads, instances, released>>

\* getStripeCheckout of the overlapping call c resolves: this.stripeCheckout
\* is assigned and loadActions called
OverlappingCheckoutCreated(c) ==
    /\ inits[c].pc = "getStripeCheckout"
    /\ instances < MaxInitializes
    /\ stripeCheckout' = instances + 1
    /\ instances' = instances + 1
    /\ OverlappingBecomes(c, [inits[c] EXCEPT !.pc = "loadActions"])
    /\ UNCHANGED <<stripeClient, elements, loaderCalls, loads, lastLoaded, released>>

\* loadActions of the overlapping call c resolves with actions: updateEmail
OverlappingActionsLoaded(c) ==
    /\ inits[c].pc = "loadActions"
    /\ OverlappingBecomes(c, [inits[c] EXCEPT !.pc = "updateEmail"])
    /\ UNCHANGED <<stripeClient, stripeCheckout, elements, loaderCalls, loads, instances,
                   lastLoaded, released>>

\* updateEmail of the overlapping call c resolves: the payment element of
\* the checkout instance the strategy holds now is fetched or created,
\* mounted and listened to; without an element NotInitializedError is thrown
OverlappingEmailUpdated(c, created) ==
    /\ inits[c].pc = "updateEmail"
    /\ LET k == stripeCheckout
           existing == getPaymentElement(k)
           element == IF existing # 0 THEN existing
                      ELSE IF k # 0 /\ created THEN k ELSE 0
       IN  IF element = 0
           THEN /\ OverlappingBecomes(c, [inits[c] EXCEPT !.pc = "done",
                                                          !.outcome = "resolved",
                                                          !.failedAt = "paymentElement"])
                /\ UNCHANGED elements
           ELSE /\ elements' = [elements EXCEPT ![element] =
                                   [@ EXCEPT !.state = "mounted", !.mounts = @ + 1,
                                             !.listening = TRUE]]
                /\ OverlappingBecomes(c, [inits[c] EXCEPT !.pc = "adaptivePricing"])
    /\ UNCHANGED <<stripeClient, stripeCheckout, loaderCalls, loads, instances,
                   lastLoaded, released>>

\* _initAdaptivePricing of the overlapping call c settles: initialize()
\* resolves
OverlappingPricingSettled(c) ==
    /\ inits[c].pc = "adaptivePricing"
    /\ OverlappingBecomes(c, [inits[c] EXCEPT !.pc = "done", !.outcome = "resolved"])
    /\ UNCHANGED <<stripeClient, stripeCheckout, elements, loaderCalls, loads, instances,
                   lastLoaded, released>>

\* deinitialize() while initialize() calls may be in flight
DeinitializeOverlapping ==
    /\ LET element == getPaymentElement(stripeCheckout)
       IN  elements' = IF element = 0 THEN elements
                       ELSE [elements EXCEPT ![element] =
                                [@ EXCEPT !.state = "destroyed", !.unmounts = @ + 1,
                                          !.destroys = @ + 1, !.listening = FALSE]]
    /\ stripeCheckout' = 0
    /\ stripeClient' = 0
    /\ selectedMethodId' = Undef
    /\ lastPaymentEvent' = Undef
    /\ lastCompleted' = "deinitialize"
    /\ loads' = 0
    /\ finalized' = "none"
    /\ exec' = IF exec.pc = "done" THEN IdleExecute ELSE exec
    /\ inits' = [c \in InitializeCalls |->
                    IF inits[c].pc = "done" THEN IdleOverlapping
                    ELSE IF inits[c].pc # "idle" /\ inits[c].deinitialized = "none"
                    THEN [inits[c] EXCEPT !.deinitialized = inits[c].pc]
                    ELSE inits[c]]
    /\ lastLoaded' = 0
    /\ released' = TRUE
    /\ UNCHANGED <<loaderCalls, instances, init, billingVars, libraryVars>>

NextOverlap ==
    \/ \E c \in InitializeCalls : OverlappingInitialize(c)
    \/ \E c \in InitializeCalls : OverlappingStepRejects(c)
    \/ \E c \in InitializeCalls : OverlappingStripeJsLoaded(c)
    \/ \E c \in InitializeCalls : OverlappingCheckoutCreated(c)
    \/ \E c \in InitializeCalls : OverlappingActionsLoaded(c)
    \/ \E c \in InitializeCalls, created \in BOOLEAN : OverlappingEmailUpdated(c, created)
    \/ \E c \in InitializeCalls : OverlappingPricingSettled(c)
    \/ DeinitializeOverlapping

NextStripe ==
    \/ \E options \in InitializeOptions, pm \in PaymentMethods :
          /\ Quiescent
          /\ options \notin {"valid", "validNoOnError"} => pm = "missing"
          /\ Initialize(options, pm)
    \/ \E pm \in PaymentMethods : InitializePaymentMethodLoaded(pm)
    \/ \E thrown \in Thrown : InitializeStepRejects(thrown)
    \/ StripeJsLoaded
    \/ StripeCheckoutCreated
    \/ \E ok \in BOOLEAN : InitializeActionsLoaded(ok)
    \/ \E created \in BOOLEAN : EmailUpdated(created)
    \/ \E failed \in BOOLEAN : AdaptivePricingSettled(failed)
    \/ Quiescent /\ Deinitialize
    \/ Finalize
    \/ \E k \in CheckoutInstances, event \in ChangeEvents : ElementChange(k, event)
    \/ \E arguments \in LifecycleArguments :
          /\ Quiescent
          /\ Execute(arguments[1], arguments[2], FALSE, "ok")
    \/ ExecuteStepResolves
    \/ ExecuteStepRejects
    \/ PaymentSubmitted
    \/ \E err \in PaymentErrors : PaymentRejected(err, Undef)
    \/ \E ok \in BOOLEAN : ExecuteActionsLoaded(ok)
    \/ \E session \in LifecycleSessions : Confirmed(session)
    \/ ConfirmFailed("rejects")
    \/ PaymentRejectedAgain("requestError")

\* execute() with every input, on a strategy whose initialize() calls are
\* given valid options and a Stripe payment method and meet no failure:
\* initialize() and execute() are called once the previous
\* operation has settled, deinitialize() also while an execute() is in
\* flight. A call that fails its argument check reads no state of the
\* integration service, so one state stands for all.
NextExecute ==
    \/ Quiescent /\ Initialize("valid", "ok")
    \/ StripeJsLoaded
    \/ StripeCheckoutCreated
    \/ InitializeActionsLoaded(TRUE)
    \/ EmailUpdated(TRUE)
    \/ AdaptivePricingSettled(FALSE)
    \/ InitializeSettled /\ Deinitialize
    \/ \E k \in CheckoutInstances, event \in ChangeEvents : ElementChange(k, event)
    \/ \E arguments \in ExecuteArguments, credit \in BOOLEAN, pm \in ExecutePaymentMethods :
          /\ Quiescent
          /\ (~Truthy(arguments[1]) \/ ~Truthy(arguments[2])) => (~credit /\ pm = "missing")
          /\ Execute(arguments[1], arguments[2], credit, pm)
    \/ ExecuteStepResolves
    \/ ExecuteStepRejects
    \/ PaymentSubmitted
    \/ \E err \in PaymentErrors, token \in ActionTokens : PaymentRejected(err, token)
    \/ \E ok \in BOOLEAN : ExecuteActionsLoaded(ok)
    \/ \E session \in Sessions : Confirmed(session)
    \/ \E result \in ConfirmFailures : ConfirmFailed(result)
    \/ \E err \in PaymentErrors : PaymentRejectedAgain(err)

\* the store of the billing-address calls is any one store
StoreIdle ==
    /\ checkout = <<>>
    /\ customer = "none"
    /\ config = "noConfig"
    /\ billingAddressState =
          [data |-> <<>>,
           statuses |-> [continueAsGuest |-> FALSE, updateAddress |-> FALSE],
           errors |-> [continueAsGuest |-> Undef, updateAddress |-> Undef]]
    /\ calls = [c \in Calls |-> IdleCall]
    /\ lastTerminal = <<>>

InitStripe ==
    /\ StrategyConstructed
    /\ StoreIdle
    /\ LibraryIdle

SpecStripe == InitStripe /\ [][NextStripe]_vars

SpecExecute == InitStripe /\ [][NextExecute]_vars

SpecOverlap == InitStripe /\ [][NextOverlap]_vars

\* A selector made of one slice and one cart, and one of its methods called.
SelectorArguments == { Undef } \cup ConsignmentIds

InitSelector ==
    /\ StrategyConstructed
    /\ StoreIdle
    /\ \/ consignmentState \in StatusStates \cup ErrorStates /\ cart = <<>>
       \/ consignmentState \in AssignmentStates /\ cart \in Carts
    /\ selection = NoSelection
    /\ LoaderIdle
    /\ MergeIdle
    /\ LanguageIdle

NextSelector ==
    \/ \E name \in StatusNames, id \in SelectorArguments : SelectStatus(name, id)
    \/ \E name \in { "getUpdateError", "getDeleteError", "getUpdateShippingOptionError" },
          id \in SelectorArguments : SelectError(name, id)
    \/ SelectUnassignedItems
    \/ \E name \in { "getConsignmentByAddress", "isAssigningItems", "getItemAssignmentError" },
          address \in ShippingAddresses : SelectByAddress(name, address)

SpecSelector == InitSelector /\ [][NextSelector]_vars

\* One host window: getStripeClient calls that may overlap, and getElements
\* calls.
InitLoader ==
    /\ StrategyConstructed
    /\ StoreIdle
    /\ LibraryIdle

NextLoader ==
    \/ \E c \in ClientCalls, arguments \in ClientArguments :
          getStripeClient(c, arguments[1], arguments[2], arguments[3])
    \/ \E c \in ClientCalls, defines \in BOOLEAN : ScriptLoaded(c, defines)
    \/ \E c \in ClientCalls : ScriptFailed(c)
    \/ \E client \in 1..MaxClientCalls, options \in ElementsOptions : getElements(client, options)

SpecLoader == InitLoader /\ [][NextLoader]_vars

\* One call of mergeOrPush, with every input.
InitMerge ==
    /\ StrategyConstructed
    /\ StoreIdle
    /\ SelectorIdle
    /\ LoaderIdle
    /\ mergeArray \in MergeArrays
    /\ mergeItem \in MergeItems
    /\ mergePredicate \in MergePredicates
    /\ mergeResult = <<>>
    /\ LanguageIdle

NextMerge == MergeOrPush

SpecMerge == InitMerge /\ [][NextMerge]_vars

\* One language service: translate and mapKeys in any order.
InitLanguage ==
    /\ StrategyConstructed
    /\ StoreIdle
    /\ SelectorIdle
    /\ LoaderIdle
    /\ MergeIdle
    /\ LanguageConstructed

NextLanguage ==
    \/ \E key \in LanguageKeys, data \in TranslationDatas : translate(key, data)
    \/ \E key \in LanguageKeys, existing \in LanguageKeys : mapKeys(key, existing)

SpecLanguage == InitLanguage /\ [][NextLanguage]_vars

\* the store before the first call, its customer and configuration among
\* the given ones
InitStore(customers, configs) ==
    /\ checkout \in { <<>>, << [id |-> "co1"] >> }
    /\ customer \in customers
    /\ config \in configs
    /\ billingAddressState \in
          { [data |-> d,
             statuses |-> [continueAsGuest |-> FALSE, updateAddress |-> FALSE],
             errors |-> [continueAsGuest |-> Undef, updateAddress |-> Undef]] :
            d \in InitialBillingAddresses }
    /\ calls = [c \in Calls |-> IdleCall]
    /\ lastTerminal = <<>>
    /\ LibraryIdle

InitBilling ==
    /\ InitStore({ "none", "guest", "full" }, { "noConfig", "noFlag", "on", "off" })
    /\ StrategyConstructed

InitConcurrent ==
    /\ InitStore({ "guest", "full" }, { "noConfig", "off" })
    /\ StrategyConstructed

\* Concurrent calls: up to MaxCalls overlapping calls, each with one of a
\* few inputs (credentials without and with a consent, one address).
ConcurrentCredentials ==
    { cr \in GuestCredentials :
        /\ Get(cr, "acceptsAbandonedCartEmails") = Undef
        /\ Get(cr, "acceptsMarketingNewsletter") \in {Undef, "true"} }

ConcurrentAddresses ==
    { a \in AddressInputs : Get(a, "id") = Undef /\ Get(a, "email") = "new@x" }

NextBilling ==
    \/ \E c \in Calls, credentials \in ConcurrentCredentials : continueAsGuest(c, credentials)
    \/ \E c \in Calls, address \in ConcurrentAddresses : updateAddress(c, address)
    \/ \E c \in Calls, address \in ResponseAddresses : ResolveBillingRequest(c, address)
    \/ \E c \in Calls, e \in RequestErrors : RejectBillingRequest(c, e)
    \/ \E c \in Calls : ResolveSubscriptionsRequest(c)
    \/ \E c \in Calls, e \in SubscriptionErrors : RejectSubscriptionsRequest(c, e)

SpecBilling == InitConcurrent /\ [][NextBilling]_vars

\* One call, with every input: what a single call does to each store state.
NextOneCall ==
    \/ \E credentials \in GuestCredentials : continueAsGuest(1, credentials)
    \/ \E address \in AddressInputs : updateAddress(1, address)
    \/ \E address \in ResponseAddresses : ResolveBillingRequest(1, address)
    \/ \E e \in RequestErrors : RejectBillingRequest(1, e)
    \/ ResolveSubscriptionsRequest(1)
    \/ \E e \in SubscriptionErrors : RejectSubscriptionsRequest(1, e)

SpecOneCall == InitBilling /\ [][NextOneCall]_vars

\* ------------------------------------------------------------------------
\* Properties of BillingAddressActionCreator
\* ------------------------------------------------------------------------

\* the call passed its preconditions and was subscribed to
Passed(c) == calls[c].stream \in {"open", "completed", "errored"}

\* the positions of the call's emitted actions whose type is among types
Positions(c, types) ==
    { i \in 1..Len(calls[c].actions) : calls[c].actions[i].type \in types }

BillingRequests(c) ==
    SelectSeq(calls[c].requests, LAMBDA r : r.kind \in {"createAddress", "updateAddress"})

SubscriptionRequests(c) ==
    SelectSeq(calls[c].requests, LAMBDA r : r.kind = "updateSubscriptions")

SubscriptionTypes ==
    { "UpdateSubscriptionsRequested", "UpdateSubscriptionsSucceeded",
      "UpdateSubscriptionsFailed" }

RequestedOf(kind) ==
    IF kind = "continueAsGuest" THEN "ContinueAsGuestRequested"
                                ELSE "UpdateBillingAddressRequested"

\* C1: every call that passed its preconditions has emitted its Requested
\* action first, and each Succeeded or Failed action of a call comes after
\* the Requested action of that call.
C1_RequestedBeforeTerminal ==
    \A c \in Calls :
        /\ Passed(c) =>
              /\ calls[c].actions # <<>>
              /\ calls[c].actions[1].type = RequestedOf(calls[c].kind)
        /\ \A i \in Positions(c, BillingTerminalTypes) :
              \E j \in 1..(i - 1) : calls[c].actions[j].type = RequestedOf(calls[c].kind)

\* a continueAsGuest call with a consent whose two streams both completed:
\* Requested came first and Succeeded after it
C1_Witness ==
    \E c \in Calls :
        /\ calls[c].kind = "continueAsGuest"
        /\ calls[c].stream = "completed"
        /\ calls[c].consent = "resolved"
        /\ Positions(c, {"ContinueAsGuestRequested"}) = {1}
        /\ Positions(c, {"ContinueAsGuestSucceeded"}) \subseteq {3, 4}
        /\ Positions(c, {"ContinueAsGuestSucceeded"}) # {}

\* C2: a call that emitted Requested and whose request has settled has
\* emitted exactly one terminal action: Succeeded when the request resolved,
\* Failed when it rejected.
C2_ExactlyOneTerminal ==
    \A c \in Calls :
        (Passed(c) /\ calls[c].billing \in {"resolved", "rejected"}) =>
            /\ Cardinality(Positions(c, BillingTerminalTypes)) = 1
            /\ calls[c].billing = "resolved" =>
                  Positions(c, BillingSucceededTypes) # {}
            /\ calls[c].billing = "rejected" =>
                  Positions(c, BillingFailedTypes) # {}

\* C3: a call whose precondition fails (no checkout; for continueAsGuest a
\* signed-in customer who is no guest) raises the matching error, emits no
\* action and sends no request; the slice stays as it was.
C3_PreconditionBeforeAnyAction ==
    \A c \in Calls :
        LET missing == checkout = <<>>
            notGuest == calls[c].kind = "continueAsGuest" /\ customer = "full"
        IN  (calls[c].kind # "none" /\ (missing \/ notGuest)) =>
                /\ calls[c].stream = "thrown"
                /\ calls[c].thrown = IF missing THEN "MissingCheckout"
                                                ELSE "UnableToContinueAsGuest"
                /\ calls[c].actions = <<>>
                /\ calls[c].requests = <<>>
                /\ ~billingAddressState.statuses[calls[c].kind]

\* continueAsGuest was called with a checkout in state by a signed-in customer
C3_Witness ==
    \E c \in Calls :
        /\ calls[c].kind = "continueAsGuest"
        /\ checkout # <<>>
        /\ customer = "full"
        /\ calls[c].thrown = "UnableToContinueAsGuest"

\* C4: a call that passed its preconditions has sent exactly one billing
\* request. With the flag enabled (or config or flag absent) it is
\* createAddress iff the call read no billing address; with the flag
\* disabled it is createAddress iff the body carries no id. continueAsGuest
\* with only an email and no stored address sends createAddress with the
\* credentials and, once resolved, has emitted Requested then Succeeded
\* carrying the returned checkout.
C4_CreateOrUpdate ==
    \A c \in Calls :
        Passed(c) =>
            LET sent == BillingRequests(c)
                create == IF config \in {"noConfig", "noFlag", "on"}
                          THEN calls[c].billingAddress = <<>>
                          ELSE Get(sent[1].body, "id") = Undef
            IN  /\ Len(sent) = 1
                /\ sent[1].kind = IF create THEN "createAddress" ELSE "updateAddress"
                /\ sent[1].checkoutId = checkout[1].id
                /\ ( /\ calls[c].kind = "continueAsGuest"
                     /\ DOMAIN calls[c].input = {"email"}
                     /\ calls[c].billingAddress = <<>> ) =>
                        /\ sent[1].kind = "createAddress"
                        /\ sent[1].body = calls[c].input
                        /\ calls[c].actions[1].type = "ContinueAsGuestRequested"
                        /\ calls[c].billing = "resolved" =>
                              /\ Len(calls[c].actions) = 2
                              /\ calls[c].actions[2].type = "ContinueAsGuestSucceeded"
                              /\ calls[c].actions[2].payload = calls[c].response
                              /\ ~calls[c].actions[2].error

\* with the flag disabled, a stored address without id and a caller without
\* id, updateAddress has sent createAddress although an address is stored
C4_Witness ==
    \E c \in Calls :
        /\ Passed(c)
        /\ config = "off"
        /\ calls[c].billingAddress # <<>>
        /\ BillingRequests(c)[1].kind = "createAddress"
        /\ calls[c].billing = "resolved"

\* C5: a call whose billing request rejected with e has emitted a Failed
\* action carrying e with the error flag set, its stream has ended in error
\* and it has emitted no Succeeded action.
C5_RejectionBecomesFailed ==
    \A c \in Calls :
        calls[c].billing = "rejected" =>
            /\ calls[c].stream = "errored"
            /\ Positions(c, BillingSucceededTypes) = {}
            /\ \E i \in Positions(c, BillingFailedTypes) :
                  /\ calls[c].actions[i].cause = calls[c].rejection
                  /\ calls[c].actions[i].error

ConsentProvided(v) == v \in {"true", "false"}

\* C6: a continueAsGuest call that passed its preconditions has sent a
\* subscription update iff one of the two consent fields is true or false;
\* otherwise it has sent none and emitted no subscription action. The update
\* carries the email and each field, false when the field is absent.
C6_SubscriptionIffConsent ==
    \A c \in Calls :
        (Passed(c) /\ calls[c].kind = "continueAsGuest") =>
            LET m == Get(calls[c].input, "acceptsMarketingNewsletter")
                a == Get(calls[c].input, "acceptsAbandonedCartEmails")
                sent == SubscriptionRequests(c)
            IN  IF ConsentProvided(m) \/ ConsentProvided(a)
                THEN /\ Len(sent) = 1
                     /\ sent[1].body.email = Get(calls[c].input, "email")
                     /\ sent[1].body.acceptsMarketingNewsletter =
                            (IF m = "true" THEN "true" ELSE "false")
                     /\ sent[1].body.acceptsAbandonedCartEmails =
                            (IF a = "true" THEN "true" ELSE "false")
                ELSE /\ sent = <<>>
                     /\ Positions(c, SubscriptionTypes) = {}
                     /\ calls[c].consent = "none"

\* an explicit false with the other field null triggered the update, which
\* carries false for both
C6_Witness ==
    \E c \in Calls :
        /\ Passed(c)
        /\ Get(calls[c].input, "acceptsMarketingNewsletter") = "false"
        /\ Get(calls[c].input, "acceptsAbandonedCartEmails") = "null"
        /\ Len(SubscriptionRequests(c)) = 1
        /\ SubscriptionRequests(c)[1].body.acceptsAbandonedCartEmails = "false"

\* C7: the body of updateAddress carries the stored email when the caller
\* gave none and an address is stored, and otherwise the caller's email as
\* given: the empty string unchanged, undefined when omitted.
C7_EmailFallback ==
    \A c \in Calls :
        (Passed(c) /\ calls[c].kind = "updateAddress") =>
            LET given == Get(calls[c].input, "email")
                stored == calls[c].billingAddress
                body == BillingRequests(c)[1].body
            IN  /\ Get(body, "email") =
                      IF given = Undef /\ stored # <<>> THEN Get(stored[1], "email")
                                                       ELSE given
                /\ given = "" => Get(body, "email") = ""
                /\ (given = Undef /\ stored = <<>>) => Get(body, "email") = Undef

\* a caller gave the empty string while an email is stored
C7_Witness ==
    \E c \in Calls :
        /\ Passed(c)
        /\ calls[c].kind = "updateAddress"
        /\ "email" \in DOMAIN calls[c].input
        /\ calls[c].input["email"] = ""
        /\ calls[c].billingAddress # <<>>
        /\ Get(calls[c].billingAddress[1], "email") = "stored@x"

\* C8: when the billing address updateAddress read carries an id, the body
\* carries that id, whatever id the caller passed, and the request is
\* updateAddress, under every value of the flag.
C8_StoredIdForwarded ==
    \A c \in Calls :
        ( /\ Passed(c)
          /\ calls[c].kind = "updateAddress"
          /\ calls[c].billingAddress # <<>>
          /\ Get(calls[c].billingAddress[1], "id") # Undef ) =>
            /\ Get(BillingRequests(c)[1].body, "id") = Get(calls[c].billingAddress[1], "id")
            /\ BillingRequests(c)[1].kind = "updateAddress"

\* the caller passed another id than the stored one, with the flag disabled
C8_Witness ==
    \E c \in Calls :
        /\ Passed(c)
        /\ calls[c].kind = "updateAddress"
        /\ config = "off"
        /\ Get(calls[c].input, "id") = "a9"
        /\ calls[c].billingAddress # <<>>
        /\ Get(calls[c].billingAddress[1], "id") = "a1"

\* every call has ended: its stream has completed or ended in error and none
\* of its requests is pending
AllSettled ==
    \A c \in Calls :
        /\ calls[c].stream # "open"
        /\ calls[c].billing # "pending"
        /\ calls[c].consent # "pending"

\* C9: every call that passed its preconditions has emitted a Requested
\* action of its own and sent a billing request of its own, whatever other
\* calls are in flight; when two calls of one action creator overlapped and
\* both have settled, the slice is the one the terminal action dispatched
\* last left: its operation is not in progress, the data is the billing
\* address of that action when it is a Succeeded, the error of its operation
\* is its error when it is a Failed.
C9_IndependentLastWins ==
    /\ \A c \in Calls :
          Passed(c) =>
              /\ Cardinality(Positions(c, BillingRequestedTypes)) = 1
              /\ Len(BillingRequests(c)) = 1
    /\ ( /\ Passed(1) /\ Passed(2)
         /\ calls[1].kind = calls[2].kind
         /\ calls[2].overlapped
         /\ AllSettled
         /\ lastTerminal # <<>> ) =>
          LET last == lastTerminal[1].action
              kind == calls[lastTerminal[1].call].kind
          IN  /\ ~billingAddressState.statuses[kind]
              /\ last.type \in BillingSucceededTypes =>
                    billingAddressState.data = last.payload[1].billingAddress
              /\ last.type \in BillingFailedTypes =>
                    billingAddressState.errors[kind] = last.cause

\* ------------------------------------------------------------------------
\* Properties of StripeCSPaymentStrategy
\* ------------------------------------------------------------------------

\* C10: once an initialize() call whose setup failed has settled, the
\* strategy holds no client and no checkout instance, and an execute() call
\* made next has rejected with NotInitializedError.
C10_FailedInitializeUninitialized ==
    /\ (init.pc = "done" /\ init.failedAt # "none") =>
          /\ stripeClient = 0
          /\ stripeCheckout = 0
    /\ (exec.pc # "idle" /\ exec.after = "initializeFailed") =>
          /\ exec.outcome = "rejected"
          /\ exec.error = "NotInitializedError"

\* C11: once the options passed validation, every failure during setup,
\* whatever the value thrown and the adaptive-pricing step included, is handed
\* to the onError callback exactly once and initialize() resolves.
C11_EveryFailureReported ==
    (/\ init.pc = "done"
     /\ init.options = "valid"
     /\ (init.failedAt # "none" \/ init.pricing = "failed"))
        => /\ init.outcome = "resolved"
           /\ init.onError = 1

\* C12: initialize() without stripeocs options, with an empty containerId or
\* without gatewayId rejects with NotInitializedError and does nothing else:
\* no payment method is loaded, no script is loaded, no element is mounted,
\* onError is not called, and the strategy is left as it was.
C12_InvalidOptionsRejected ==
    /\ [](init.options \in {"noStripeocs", "emptyContainerId", "noGatewayId"}
            => /\ init.pc = "done"
               /\ init.outcome = "NotInitializedError"
               /\ init.failedAt = "none"
               /\ init.onError = 0
               /\ init.cached = 0
               /\ init.loading = 0
               /\ init.pricing = "none")
    /\ [][(/\ init'.options \in {"noStripeocs", "emptyContainerId", "noGatewayId"}
            /\ (init' # init \/ exec' # exec))
            => UNCHANGED <<stripeClient, stripeCheckout, selectedMethodId, elements,
                           loaderCalls, loads, instances>>]_vars

\* an initialized strategy rejected a call without gatewayId
C12_Witness ==
    /\ init.pc = "done"
    /\ init.options = "noGatewayId"
    /\ init.outcome = "NotInitializedError"
    /\ stripeClient # 0
    /\ stripeCheckout # 0
    /\ elements[stripeCheckout].state = "mounted"

\* C13 as stated: over initialize() calls with no deinitialize() between them
\* the script loader is invoked exactly once, by the first call that reaches
\* script loading, and a strategy that holds a client loaded it in that one call.
C13_LoadedExactlyOnce ==
    /\ loads <= 1
    /\ stripeClient # 0 => loads = 1

\* C13: over non-overlapping initialize() calls with no deinitialize() between
\* them, a call that reaches script loading invokes the script loader, once,
\* only while the strategy holds no client handle; from the first load that
\* resolved on, every later call takes the cached handle, the loader is not
\* invoked again and the handle stays the same.
C13_LoadedUntilCached ==
    /\ [](/\ init.pc = "loadStripeJs" => (init.cached # 0) # (init.loading # 0)
          /\ init.cached # 0 => init.cached = stripeClient
          /\ stripeClient # 0 => loads >= 1)
    /\ [][/\ loaderCalls' \in {loaderCalls, loaderCalls + 1}
          /\ stripeClient # 0 => loaderCalls' = loaderCalls
          /\ (stripeClient # 0 /\ stripeClient' # 0) => stripeClient' = stripeClient]_vars

\* a second initialize() went through on the handle the first one loaded
C13_Witness ==
    /\ init.pc = "done"
    /\ init.outcome = "resolved"
    /\ init.failedAt = "none"
    /\ init.cached # 0
    /\ init.cached = stripeClient
    /\ init.loading = 0
    /\ loads = 1
    /\ instances = 2

\* C14: execute() called while the strategy holds no client handle (never
\* initialized, or deinitialized since) rejects with NotInitializedError,
\* whatever its arguments, and calls none of applyStoreCredit,
\* loadPaymentMethod, submitOrder and submitPayment.
C14_ExecuteNeedsClient ==
    (exec.pc # "idle" /\ exec.client = 0)
        => /\ exec.pc = "done"
           /\ exec.outcome = "rejected"
           /\ exec.error = "NotInitializedError"
           /\ exec.steps = <<>>
           /\ exec.payloads = <<>>

\* execute() without gatewayId on a deinitialized strategy was rejected for
\* the missing client
C14_Witness ==
    /\ exec.pc = "done"
    /\ exec.client = 0
    /\ exec.after = "deinitialize"
    /\ exec.gatewayId = Undef
    /\ exec.error = "NotInitializedError"
    /\ exec.steps = <<>>

\* C15: on a strategy that holds a client handle, execute() with a missing or
\* empty gatewayId, or a missing or empty methodId, rejects with
\* InvalidArgumentError before any side effect.
C15_ExecuteNeedsArguments ==
    (/\ exec.pc # "idle"
     /\ exec.client # 0
     /\ (exec.gatewayId \in {Undef, ""} \/ exec.methodId \in {Undef, ""}))
        => /\ exec.pc = "done"
           /\ exec.outcome = "rejected"
           /\ exec.error = "InvalidArgumentError"
           /\ exec.steps = <<>>
           /\ exec.payloads = <<>>

\* execute() with an empty methodId on an initialized strategy was rejected
C15_Witness ==
    /\ exec.pc = "done"
    /\ exec.client # 0
    /\ exec.gatewayId = "stripeocs"
    /\ exec.methodId = ""
    /\ exec.error = "InvalidArgumentError"
    /\ exec.steps = <<>>

\* the steps of an execute() call that meets no additional action, in order
ExpectedSteps(credit) ==
    (IF credit THEN <<"applyStoreCredit">> ELSE <<>>)
        \o <<"loadPaymentMethod", "submitOrder", "submitPayment">>

\* s is an initial part of t
IsPrefix(s, t) == Len(s) <= Len(t) /\ s = SubSeq(t, 1, Len(s))

\* C16: an execute() call that passed its guards calls applyStoreCredit (if
\* and only if the checkout has isStoreCreditApplied), loadPaymentMethod,
\* submitOrder and submitPayment in that order, each once the one before it
\* resolved; when a step before submitPayment rejects, execute() rejects with
\* that error and no later step is called.
C16_StepsInOrder ==
    /\ [](LET expected == ExpectedSteps(exec.credit)
              n == IF Len(exec.steps) < Len(expected) THEN Len(exec.steps)
                   ELSE Len(expected)
          IN  /\ IsPrefix(SubSeq(exec.steps, 1, n), expected)
              /\ Len(exec.steps) <= Len(expected) => IsPrefix(exec.steps, expected)
              /\ (exec.pc \notin {"idle", "done"}) => exec.steps # <<>>
              /\ exec.pc \in {"applyStoreCredit", "loadPaymentMethod", "submitOrder",
                              "submitPayment"}
                    => exec.pc = exec.steps[Len(exec.steps)]
              /\ (/\ exec.pc = "done"
                  /\ exec.error \in {"applyStoreCredit", "loadPaymentMethod", "submitOrder"})
                    => /\ exec.outcome = "rejected"
                       /\ exec.steps # <<>>
                       /\ exec.error = exec.steps[Len(exec.steps)]
                       /\ IsPrefix(exec.steps, expected)
                       /\ exec.payloads = <<>>)
    /\ [][(/\ exec.pc \in {"applyStoreCredit", "loadPaymentMethod", "submitOrder"}
           /\ exec'.pc # exec.pc)
            => \/ /\ exec'.pc = "done"
                  /\ exec'.outcome = "rejected"
                  /\ exec'.steps = exec.steps
               \/ /\ exec'.steps = Append(exec.steps, exec'.pc)
                  /\ IsPrefix(exec'.steps, ExpectedSteps(exec.credit))]_vars

\* an execute() with store credit applied went through its four steps
C16_Witness ==
    /\ exec.pc = "done"
    /\ exec.outcome = "resolved"
    /\ exec.credit
    /\ exec.steps = <<"applyStoreCredit", "loadPaymentMethod", "submitOrder", "submitPayment">>

\* the number of times step was called in steps
Count(steps, step) == Cardinality({ i \in 1..Len(steps) : steps[i] = step })

\* C17: when the first submitPayment rejected with a request error recognised
\* as additional-action-required and the confirm action returned a session,
\* confirm was called once and submitPayment a second time, with the id of
\* the session as token when that id is non-empty and the token of
\* additional_action_required.data otherwise; when this second call
\* resolves, execute() resolves.
C17_SecondSubmission ==
    /\ [](exec.first = "additionalAction" <=> exec.pc \in {"loadActions", "confirm"}
                                              \/ exec.session # <<>>
                                              \/ /\ exec.pc = "done"
                                                 /\ exec.error \in {"NotInitializedError",
                                                       "PaymentMethodFailedError", "confirm"}
                                                 /\ Count(exec.steps, "submitPayment") = 1)
    /\ [](exec.session # <<>>
            => /\ exec.pc \in {"submitPaymentAgain", "done"}
               /\ exec.first = "additionalAction"
               /\ exec.steps = ExpectedSteps(exec.credit) \o <<"confirm", "submitPayment">>
               /\ Len(exec.payloads) = 2
               /\ exec.payloads[2].methodId = exec.methodId
               /\ exec.payloads[2].token =
                     IF exec.session[1].id \in {Undef, ""} THEN exec.token
                     ELSE exec.session[1].id
               /\ (exec.pc = "done" /\ exec.error = "none") => exec.outcome = "resolved")
    /\ [][(exec.pc = "confirm" /\ exec'.pc = "submitPaymentAgain")
              => /\ exec'.session # <<>>
                 /\ exec'.token = exec.token]_vars
    /\ [][(exec.pc = "submitPaymentAgain" /\ exec'.pc # exec.pc)
              => /\ exec'.pc = "done"
                 /\ exec'.steps = exec.steps
                 /\ exec'.payloads = exec.payloads
                 /\ exec'.outcome = "resolved" <=> exec'.error = "none"]_vars

\* a session with an empty id was confirmed, the payment submitted again with
\* the token of the error body, and execute() resolved
C17_Witness ==
    /\ exec.pc = "done"
    /\ exec.outcome = "resolved"
    /\ exec.session # <<>>
    /\ exec.session[1].id = ""
    /\ exec.token = "actionToken"
    /\ Len(exec.payloads) = 2
    /\ exec.payloads[2].token = "actionToken"

\* C18: when the first submitPayment failed as additional-action-required and
\* the second submitPayment fails too, execute() rejects with
\* PaymentMethodFailedError if the confirmed session has payment status Paid
\* and with the second error itself if it has another payment status; in both
\* cases submitPayment was called exactly twice.
C18_SecondFailure ==
    (/\ exec.pc = "done"
     /\ exec.first = "additionalAction"
     /\ exec.session # <<>>
     /\ exec.error # "none"
     /\ exec.session[1].status # Undef)
        => /\ exec.outcome = "rejected"
           /\ Count(exec.steps, "submitPayment") = 2
           /\ Len(exec.payloads) = 2
           /\ exec.session[1].status = "paid" => exec.error = "PaymentMethodFailedError"
           /\ exec.session[1].status # "paid"
                 => exec.error \in {"second.notRequestError", "second.requestError",
                                    "second.additionalAction"}

\* the order was paid on the side of Stripe and the second submission failed
C18_Witness ==
    /\ exec.pc = "done"
    /\ exec.session # <<>>
    /\ exec.session[1].status = "paid"
    /\ exec.outcome = "rejected"
    /\ exec.error = "PaymentMethodFailedError"
    /\ Count(exec.steps, "submitPayment") = 2

\* C19: in one execute() call submitPayment is called at most twice and the
\* confirm action at most once; when the second submitPayment fails the call
\* ends there, with no further confirmation or submission, also when the
\* failure is again an additional-action-required request error.
C19_NoRetry ==
    /\ [](/\ Count(exec.steps, "submitPayment") <= 2
          /\ Count(exec.steps, "confirm") <= 1
          /\ Len(exec.payloads) = Count(exec.steps, "submitPayment")
          /\ exec.pc = "done" => exec.outcome \in {"resolved", "rejected"})
    /\ [][(exec.pc = "submitPaymentAgain" /\ exec'.pc # exec.pc)
              => /\ exec'.pc = "done"
                 /\ exec'.steps = exec.steps
                 /\ exec'.payloads = exec.payloads]_vars
    /\ [][exec.pc = "done"
              => \/ exec'.pc \in {"idle", "done"}
                 \/ exec'.steps \in {<<"applyStoreCredit">>, <<"loadPaymentMethod">>}]_vars

\* a second submitPayment that asked for an additional action again ended the
\* call
C19_Witness ==
    /\ exec.pc = "done"
    /\ exec.outcome = "rejected"
    /\ exec.error = "second.additionalAction"
    /\ Count(exec.steps, "submitPayment") = 2
    /\ Count(exec.steps, "confirm") = 1

\* C20: when the first submitPayment rejects with a value that is no request
\* error, or with a request error that is not recognised as
\* additional-action-required, execute() rejects with that same error, the
\* confirm action is not called and submitPayment was called exactly once.
C20_OtherErrorsPropagate ==
    /\ [](exec.first \in {"notRequestError", "requestError"}
             => /\ exec.pc = "done"
                /\ exec.outcome = "rejected"
                /\ exec.error = exec.first
                /\ exec.steps = ExpectedSteps(exec.credit)
                /\ Count(exec.steps, "confirm") = 0
                /\ Count(exec.steps, "submitPayment") = 1
                /\ Len(exec.payloads) = 1
                /\ exec.session = <<>>)
    /\ [][(exec.pc = "submitPayment" /\ exec'.first \in {"notRequestError", "requestError"})
             => /\ exec'.steps = exec.steps
                /\ exec'.payloads = exec.payloads]_vars

\* a request error that asks for no additional action was passed on
C20_Witness ==
    /\ exec.pc = "done"
    /\ exec.outcome = "rejected"
    /\ exec.first = "requestError"
    /\ exec.error = "requestError"
    /\ Count(exec.steps, "submitPayment") = 1
    /\ Count(exec.steps, "confirm") = 0

\* C21: deinitialize() never fails; the payment element of the checkout the
\* strategy holds, when there is one, is unmounted and destroyed exactly once
\* and no other element is touched; the client handle, the checkout handle
\* and the selected method are cleared; a deinitialize() of a strategy that
\* holds no checkout (never initialized, or deinitialized before) unmounts and
\* destroys nothing.
C21_DeinitializeReleases ==
    /\ [][(lastCompleted' = "deinitialize" /\ lastCompleted # "deinitialize")
            => /\ stripeClient' = 0
               /\ stripeCheckout' = 0
               /\ selectedMethodId' = Undef
               /\ \A k \in 1..MaxInitializes :
                     IF /\ k = stripeCheckout
                        /\ elements[k].state \in {"created", "mounted"}
                     THEN /\ elements'[k].state = "destroyed"
                          /\ elements'[k].unmounts = elements[k].unmounts + 1
                          /\ elements'[k].destroys = elements[k].destroys + 1
                          /\ elements'[k].mounts = elements[k].mounts
                     ELSE elements'[k] = elements[k]]_vars
    /\ [][stripeCheckout = 0
            => \A k \in 1..MaxInitializes :
                  /\ elements'[k].unmounts = elements[k].unmounts
                  /\ elements'[k].destroys = elements[k].destroys]_vars
    /\ [](\A k \in 1..MaxInitializes :
             /\ elements[k].unmounts <= 1
             /\ elements[k].destroys = elements[k].unmounts
             /\ elements[k].state = "destroyed" <=> elements[k].destroys = 1)

\* an initialized strategy was deinitialized: its element was unmounted and
\* destroyed once and the handles are cleared
C21_Witness ==
    /\ lastCompleted = "deinitialize"
    /\ stripeClient = 0
    /\ stripeCheckout = 0
    /\ selectedMethodId = Undef
    /\ \E k \in 1..MaxInitializes :
          /\ elements[k].state = "destroyed"
          /\ elements[k].mounts = 1
          /\ elements[k].unmounts = 1
          /\ elements[k].destroys = 1

\* C22: finalize() rejects with OrderFinalizationNotRequiredError in every
\* state of the strategy (before initialize(), after it, while initialize()
\* or execute() is in flight or after it, after deinitialize()) and leaves
\* the client handle, the checkout handle, the selected method and the
\* payment elements as they are.
C22_FinalizeNotRequired ==
    /\ [](finalized \in {"none", "OrderFinalizationNotRequiredError"})
    /\ [][finalized' # "none"
            => /\ finalized' = "OrderFinalizationNotRequiredError"
               /\ UNCHANGED <<stripeClient, stripeCheckout, selectedMethodId, elements,
                              loaderCalls, loads, instances, lastCompleted>>
               /\ init.pc # "done" => init' = init
               /\ exec.pc # "done" => exec' = exec]_vars

\* finalize() was rejected while the first submitPayment of an execute() was
\* pending on an initialized strategy
C22_Witness ==
    /\ finalized = "OrderFinalizationNotRequiredError"
    /\ exec.pc = "submitPayment"
    /\ stripeClient # 0
    /\ stripeCheckout # 0
    /\ selectedMethodId # Undef

\* C23: when deinitialize() runs while execute() is in flight, after the
\* first submitPayment was called and before the confirm action of the
\* additional action, execute() rejects with NotInitializedError, confirm is
\* never called and submitPayment is called exactly once.
C23_DeinitializedBeforeConfirmation ==
    (/\ exec.deinitialized \in {"submitPayment", "loadActions"}
     /\ exec.first = "additionalAction")
        => /\ Count(exec.steps, "confirm") = 0
           /\ Count(exec.steps, "submitPayment") = 1
           /\ exec.pc = "done"
                 => /\ exec.outcome = "rejected"
                    /\ exec.error = "NotInitializedError"

\* ------------------------------------------------------------------------
\* ConsignmentSelector
\* ------------------------------------------------------------------------

\* C24: isUpdating(id?), isDeleting(id?) and isUpdatingShippingOption(id?)
\* return, without an id, true exactly when at least one tracked id has the
\* flag true; with an id, that id's flag: false when the id is not tracked
\* or its flag is false.
C24_StatusPerId ==
    selection.method \in StatusNames
    => LET map == consignmentState.statuses[selection.method]
           flagged == { map[i].id : i \in { j \in 1..Len(map) : map[j].value } }
       IN  /\ selection.result \in BOOLEAN
           /\ selection.argument = Undef => (selection.result <=> flagged # {})
           /\ selection.argument # Undef => (selection.result <=> selection.argument \in flagged)

\* asked without an id while foo is true and bar false, and asked for bar
C24_Witness ==
    /\ selection.method = "isUpdating"
    /\ selection.argument = Undef
    /\ selection.result = TRUE
    /\ consignmentState.statuses.isUpdating =
          << [id |-> "foo", value |-> TRUE], [id |-> "bar", value |-> FALSE] >>

\* the error map a method reads
ErrorMapOf(method) ==
    CASE method = "getUpdateError" -> consignmentState.errors.updateError
      [] method = "getDeleteError" -> consignmentState.errors.deleteError
      [] method = "getUpdateShippingOptionError" ->
            consignmentState.errors.updateShippingOptionError

ErrorMethods == { "getUpdateError", "getDeleteError", "getUpdateShippingOptionError" }

\* C25: getUpdateShippingOptionError(id?), getUpdateError(id?) and
\* getDeleteError(id?) return, with an id, the error recorded for that id
\* only (undefined when it has none); without an id, the first error in
\* insertion order over all ids, undefined when there is none.
C25_ErrorPerId ==
    selection.method \in ErrorMethods
    => LET map == ErrorMapOf(selection.method)
           errored == { i \in 1..Len(map) : map[i].value # Undef }
       IN  /\ selection.argument # Undef
              => /\ \A i \in 1..Len(map) :
                      map[i].id = selection.argument => selection.result = map[i].value
                 /\ (\A i \in 1..Len(map) : map[i].id # selection.argument)
                      => selection.result = Undef
           /\ selection.argument = Undef
              => /\ errored = {} => selection.result = Undef
                 /\ \A i \in errored :
                      (\A j \in errored : i <= j) => selection.result = map[i].value

\* asked without an id while two ids hold different errors
C25_Witness ==
    /\ selection.method = "getUpdateShippingOptionError"
    /\ selection.argument = Undef
    /\ selection.result = "error1"
    /\ consignmentState.errors.updateShippingOptionError =
          << [id |-> "bar", value |-> "error1"], [id |-> "foo", value |-> "error2"] >>

\* the ids of the line items assigned to some consignment of the slice
AssignedLineItemIds ==
    IF consignmentState.data = <<>> THEN {}
    ELSE UNION { { consignmentState.data[1][i].lineItemIds[k] :
                     k \in 1..Len(consignmentState.data[1][i].lineItemIds) } :
                 i \in 1..Len(consignmentState.data[1]) }

\* C26: getUnassignedItems() returns exactly the physical line items of the
\* cart whose id is in no consignment's list of assigned line items, the
\* empty sequence when all are assigned, and the empty sequence when the
\* cart is absent or its physical items are absent or null.
C26_UnassignedItems ==
    selection.method = "getUnassignedItems"
    => IF cart = <<>> \/ cart[1].physicalItems = <<>>
       THEN selection.result = <<>>
       ELSE LET items == cart[1].physicalItems[1]
                kept == { i \in 1..Len(items) : items[i].id \notin AssignedLineItemIds }
            IN  /\ Len(selection.result) = Cardinality(kept)
                /\ \A i \in kept : \E k \in 1..Len(selection.result) :
                      /\ selection.result[k] = items[i]
                      /\ k = Cardinality({ j \in kept : j <= i })
                /\ kept = {} => selection.result = <<>>

\* of two physical items, the one the second consignment does not hold
C26_Witness ==
    /\ selection.method = "getUnassignedItems"
    /\ cart # <<>> /\ cart[1].physicalItems # <<>>
    /\ Len(cart[1].physicalItems[1]) = 2
    /\ consignmentState.data # <<>>
    /\ Len(consignmentState.data[1]) = 2
    /\ consignmentState.data[1][1].lineItemIds = <<>>
    /\ consignmentState.data[1][2].lineItemIds = << "item2" >>
    /\ selection.result = << PhysicalItem("item1") >>

\* the stored consignments, none when the data is absent
StoredConsignments ==
    IF consignmentState.data = <<>> THEN <<>> ELSE consignmentState.data[1]

\* the positions of the consignments whose address is the one asked for
MatchingAddress == { i \in 1..Len(StoredConsignments) :
                       StoredConsignments[i].shippingAddress = selection.argument }

\* C27: getConsignmentByAddress(address) returns the first consignment in
\* stored order whose shipping address equals the given one on every field,
\* undefined when none does or the data is absent; isAssigningItems(address)
\* and getItemAssignmentError(address) return the update status and update
\* error of that consignment, the create status and create error when no
\* consignment matches.
C27_ByAddress ==
    /\ selection.method = "getConsignmentByAddress"
       => /\ MatchingAddress = {} => selection.result = <<>>
          /\ \A i \in MatchingAddress :
               (\A j \in MatchingAddress : i <= j)
               => selection.result = << StoredConsignments[i] >>
    /\ selection.method = "isAssigningItems"
       => /\ MatchingAddress = {}
             => selection.result = consignmentState.statuses.isCreating
          /\ \A i \in MatchingAddress :
               (\A j \in MatchingAddress : i <= j)
               => (selection.result
                     <=> \E k \in 1..Len(consignmentState.statuses.isUpdating) :
                           /\ consignmentState.statuses.isUpdating[k].id = StoredConsignments[i].id
                           /\ consignmentState.statuses.isUpdating[k].value)
    /\ selection.method = "getItemAssignmentError"
       => /\ MatchingAddress = {}
             => selection.result = consignmentState.errors.createError
          /\ \A i \in MatchingAddress :
               (\A j \in MatchingAddress : i <= j)
               => selection.result =
                     Lookup(consignmentState.errors.updateError, StoredConsignments[i].id)

\* two consignments of the address asked for: the first one is returned
C27_Witness ==
    /\ selection.method = "getConsignmentByAddress"
    /\ Cardinality(MatchingAddress) = 2
    /\ selection.result = << StoredConsignments[1] >>
    /\ StoredConsignments[1].id = "bar"

\* an address that differs from a stored one in its city only: the create
\* error, not the update error of that consignment
C27_WitnessCreate ==
    /\ selection.method = "getItemAssignmentError"
    /\ MatchingAddress = {}
    /\ \E i \in 1..Len(StoredConsignments) :
          /\ StoredConsignments[i].shippingAddress.address1 = selection.argument.address1
          /\ Lookup(consignmentState.errors.updateError, StoredConsignments[i].id) = "error1"
    /\ selection.result = "createError"

\* ------------------------------------------------------------------------
\* StripeUPEScriptLoader
\* ------------------------------------------------------------------------

\* calls made in order, none overlapping another, return the client the
\* first of them stored
SameClientInOrder ==
    \A c \in ClientCalls, d \in ClientCalls :
       (/\ c < d
        /\ clientCalls[c].client # <<>>
        /\ clientCalls[d].pc = "done"
        /\ \A e \in ClientCalls : (c <= e /\ e <= d) => ~clientCalls[e].overlapped)
       => /\ clientCalls[d].client = clientCalls[c].client
          /\ clientCalls[d].cached
          /\ clientCalls[d].rejected = Undef

OneElementsInstance ==
    /\ elementsConstructed <= 1
    /\ elementsCall.n > 0 => elementsCall.elements = bcStripeElements

\* C28: once getStripeClient has stored a client on the host window, every
\* later getStripeClient call that overlaps no other returns that same client
\* without loading the script or constructing a client again, whatever key,
\* account or locale it is given; getElements returns the stored elements
\* instance on every call after the first.
C28_StoredClientReused ==
    /\ []SameClientInOrder
    /\ [][\A c \in ClientCalls :
            (bcStripeClient # <<>> /\ clientCalls[c].pc = "idle" /\ clientCalls'[c].pc # "idle")
            => /\ clientCalls'[c].pc = "done"
               /\ clientCalls'[c].client = bcStripeClient
               /\ UNCHANGED <<bcStripeClient, scriptLoads, clientsConstructed>>]_vars
    /\ []OneElementsInstance
    /\ [][bcStripeElements # <<>>
            => UNCHANGED <<bcStripeElements, elementsConstructed>>]_vars

\* a second call that overlaps no other is given another account and
\* locale, and a second getElements call other options: both return what
\* the window holds
C28_Witness ==
    /\ clientCalls[1].client # <<>> /\ ~clientCalls[1].cached /\ ~clientCalls[1].overlapped
    /\ clientCalls[2].pc = "done" /\ ~clientCalls[2].overlapped
    /\ clientCalls[2].account # clientCalls[1].account
    /\ clientCalls[2].client = clientCalls[1].client
    /\ clientCalls[2].client[1].stripeAccount # clientCalls[2].account
    /\ scriptLoads = 1 /\ clientsConstructed = 1
    /\ elementsCall.n = 2 /\ elementsCall.cached
    /\ elementsCall.elements[1].options # elementsCall.options

\* ------------------------------------------------------------------------
\* mergeOrPush
\* ------------------------------------------------------------------------

\* C29: mergeOrPush always returns a new array, never the array object it
\* was given, for every input, an absent (undefined or falsy) item included.
C29_AlwaysNewArray ==
    mergeResult # <<>> => mergeResult[1].ref # mergeArray.ref

\* ------------------------------------------------------------------------
\* LanguageService
\* ------------------------------------------------------------------------

\* C30: after mapKeys({ new_key: existing_key }), translate(new_key) returns
\* the same string as translate(existing_key) for the same data, after any
\* preceding sequence of translate and mapKeys calls, also when new_key was
\* translated (its formatter cached) before the remapping.
C30_RemappedKeyTranslatesAlike ==
    (mapped # <<>> /\ translations[mapped[2]] # Undef)
    => \A data \in TranslationDatas :
          Translation(mapped[1], data) = Translation(mapped[2], data)

\* C38: for every interleaving of overlapping getStripeClient calls on one
\* host window, the Stripe client is constructed at most once and all calls
\* resolve to the same client, the one stored in bcStripeClient.
C38_OneClientForOverlappingCalls ==
    /\ clientsConstructed <= 1
    /\ \A c \in ClientCalls :
          (clientCalls[c].pc = "done" /\ clientCalls[c].rejected = Undef)
          => clientCalls[c].client = bcStripeClient

\* C39: if the Stripe script loads but window.Stripe is undefined,
\* getStripeClient rejects with PaymentMethodClientUnavailableError and
\* leaves bcStripeClient unset, so a later getStripeClient call attempts the
\* script load again instead of returning a cached value.
C39_UnavailableClientNotCached ==
    /\ [][\A c \in ClientCalls :
            (clientCalls[c].pc = "loadScript" /\ clientCalls'[c].pc = "done"
             /\ clientCalls'[c].rejected # "loadScriptError" /\ ~windowStripe')
            => /\ clientCalls'[c].rejected = "PaymentMethodClientUnavailableError"
               /\ clientCalls'[c].client = <<>>
               /\ bcStripeClient' = <<>>
               /\ UNCHANGED clientsConstructed]_vars
    /\ [][\A c \in ClientCalls :
            (clientCalls[c].pc = "idle" /\ clientCalls'[c].pc # "idle"
             /\ \E d \in ClientCalls :
                   clientCalls[d].rejected = "PaymentMethodClientUnavailableError"
             /\ ~windowStripe)
            => /\ clientCalls'[c].pc = "loadScript"
               /\ ~clientCalls'[c].cached
               /\ scriptLoads' = scriptLoads + 1]_vars

\* a call made after one that found no Stripe asks for the script again
C39_Witness ==
    /\ clientCalls[1].rejected = "PaymentMethodClientUnavailableError"
    /\ ~clientCalls[1].overlapped
    /\ clientCalls[2].pc = "loadScript"
    /\ scriptLoads = 2
    /\ bcStripeClient = <<>>

\* the positions of the elements that match the predicate given: the
\* properties of an object predicate, or by default the id of the item
MatchingGiven ==
    { i \in 1..Len(mergeArray.items) :
        IF mergePredicate = <<>>
        THEN Get(mergeArray.items[i].props, "id") = Get(mergeItem.props, "id")
        ELSE \A k \in DOMAIN mergePredicate[1] :
                Get(mergeArray.items[i].props, k) = mergePredicate[1][k] }

\* C40: mergeOrPush(array, item, predicate) with a present item: when no
\* element matches the predicate (by default, equal id) the result is the
\* elements given, in order, followed by the item; when some element matches,
\* the result has the same length and order and only the first matching
\* position differs: it holds the merge of the existing element and the item
\* when both are plain objects, otherwise the item itself; the array given is
\* never mutated.
C40_MergedOrPushed ==
    /\ [](mergeResult # <<>> /\ Present(mergeItem)
          => LET items == mergeArray.items
                 result == mergeResult[1].items
             IN  IF MatchingGiven = {}
                 THEN result = Append(items, mergeItem)
                 ELSE LET first == CHOOSE i \in MatchingGiven : \A j \in MatchingGiven : i <= j
                      IN  /\ Len(result) = Len(items)
                          /\ \A j \in 1..Len(items) : j # first => result[j] = items[j]
                          /\ result[first] =
                                IF items[first].plain /\ mergeItem.plain
                                THEN [plain |-> TRUE, prim |-> Undef,
                                      props |-> [k \in (DOMAIN items[first].props)
                                                        \cup (DOMAIN mergeItem.props) |->
                                                   IF k \in DOMAIN mergeItem.props
                                                   THEN mergeItem.props[k]
                                                   ELSE items[first].props[k]]]
                                ELSE mergeItem)
    /\ [][UNCHANGED mergeArray]_vars

\* C35: during the additional-action flow, if the Stripe confirm action
\* returns an error or returns no session, execute() rejects with
\* PaymentMethodFailedError, and if confirm itself rejects, execute() rejects
\* with that error; in all these cases the second submitPayment is never made.
C35_ConfirmationFailed ==
    exec.confirm \in ConfirmFailures
    => /\ exec.pc = "done"
       /\ exec.outcome = "rejected"
       /\ exec.error = IF exec.confirm = "rejects" THEN "confirm"
                       ELSE "PaymentMethodFailedError"
       /\ Count(exec.steps, "submitPayment") = 1
       /\ Len(exec.payloads) = 1

\* confirm resolved with an error next to a session
C35_Witness ==
    /\ exec.confirm = "errorAndSession"
    /\ exec.error = "PaymentMethodFailedError"
    /\ exec.first = "additionalAction"
    /\ exec.deinitialized = "none"

\* C37: if the second submitPayment rejects, execute() rejects with either
\* that second error or PaymentMethodFailedError, for every session the
\* confirm action can return successfully, a session that carries an id but
\* no status included.
C37_SecondFailureForEverySession ==
    (/\ exec.pc = "done"
     /\ exec.outcome = "rejected"
     /\ exec.confirm = "session"
     /\ Count(exec.steps, "submitPayment") = 2)
    => \/ exec.error = "PaymentMethodFailedError"
       \/ \E err \in PaymentErrors : exec.error = "second." \o err

\* ------------------------------------------------------------------------
\* StripeCSPaymentStrategy: the selected method, the order of initialize()
\* ------------------------------------------------------------------------

\* C34: the method field of every payment payload sent by execute() equals
\* the type carried by the most recent payment-element change event that was
\* a payment event and not collapsed, received since the last
\* deinitialize(); collapsed or non-payment change events leave the selection
\* unchanged, and the field is undefined when no such event has occurred.
C34_PayloadCarriesSelection ==
    /\ [](selectedMethodId = lastPaymentEvent)
    /\ [][(exec'.pc # "idle" /\ Len(exec'.payloads) > Len(exec.payloads))
            => exec'.payloads[Len(exec'.payloads)].method = lastPaymentEvent]_vars
    /\ [][(lastPaymentEvent' = lastPaymentEvent /\ lastCompleted' = lastCompleted)
            => selectedMethodId' = selectedMethodId]_vars

\* the selection changed between the two submissions of one execute()
C34_Witness ==
    /\ Len(exec.payloads) = 2
    /\ exec.payloads[1].method = "card"
    /\ exec.payloads[2].method = "klarna"
    /\ lastPaymentEvent = "klarna"

\* C36: in initialize(), mountElement is called only after the checkout
\* instance was created, its actions were loaded and updateEmail completed;
\* if action loading fails or no payment element can be obtained,
\* mountElement is never called in that initialize() call and no element
\* event listener is registered.
C36_MountAfterEmailUpdated ==
    /\ [][\A k \in CheckoutInstances :
             (\/ elements'[k].mounts > elements[k].mounts
              \/ (elements'[k].listening /\ ~elements[k].listening))
             => /\ init.pc = "updateEmail"
                /\ stripeCheckout = k
                /\ k <= instances]_vars
    /\ [][(init.pc # "done" /\ init'.pc = "done"
            /\ init'.failedAt \in {"loadActions", "paymentElement"})
            => \A k \in CheckoutInstances :
                   /\ elements'[k].mounts = elements[k].mounts
                   /\ elements'[k].listening = elements[k].listening]_vars
    /\ []((init.pc = "done" /\ init.failedAt \in {"loadActions", "paymentElement"}
            /\ stripeCheckout # 0)
            => /\ elements[stripeCheckout].mounts = 0
               /\ ~elements[stripeCheckout].listening)

\* a second initialize() failed to load its actions after a first one had
\* mounted its element
C36_Witness ==
    /\ init.pc = "done"
    /\ init.failedAt = "loadActions"
    /\ stripeCheckout = 2
    /\ elements[2].mounts = 0
    /\ elements[1].mounts = 1

\* ------------------------------------------------------------------------
\* StripeCSPaymentStrategy: overlapping calls
\* ------------------------------------------------------------------------

\* the step of call c is the start of an initialize()
StartsInitialize(c) ==
    /\ inits[c].pc \in {"idle", "done"}
    /\ inits'[c].pc = "loadStripeJs"

\* C31: when two initialize() calls on one strategy instance overlap,
\* getStripeClient may be invoked by both; after both have completed the
\* strategy holds exactly one client handle, the one assigned by the call
\* whose load finished last, and every later initialize() reuses it without
\* loading again.
C31_LastLoadWins ==
    /\ [](lastLoaded # 0 => stripeClient = lastLoaded)
    /\ [][\A c \in InitializeCalls :
             (StartsInitialize(c) /\ stripeClient # 0)
             => /\ loaderCalls' = loaderCalls
                /\ inits'[c].loading = 0
                /\ inits'[c].cached = stripeClient
                /\ stripeClient' = stripeClient]_vars
    /\ [][\A c \in InitializeCalls :
             (inits[c].pc = "loadStripeJs" /\ inits'[c].pc = "getStripeCheckout"
              /\ inits[c].cached # 0)
             => /\ stripeClient' = inits[c].cached
                /\ loaderCalls' = loaderCalls]_vars

\* both calls asked the script loader, the load of the second resolved
\* first, both calls have completed
C31_Witness ==
    /\ inits[1].pc = "done" /\ inits[1].failedAt = "none" /\ inits[1].loading = 1
    /\ inits[2].pc = "done" /\ inits[2].failedAt = "none" /\ inits[2].loading = 2
    /\ loaderCalls = 2
    /\ lastLoaded = 1
    /\ stripeClient = 1

\* C33: once deinitialize() has returned, and provided no initialize() is
\* started afterwards, the strategy holds no client handle, no checkout
\* handle and no mounted element, and execute() rejects with
\* NotInitializedError; this holds also when an initialize() call was still
\* in flight at the moment deinitialize() ran.
C33_ReleasedAfterDeinitialize ==
    released
    => /\ stripeClient = 0
       /\ stripeCheckout = 0
       /\ \A k \in CheckoutInstances : elements[k].state # "mounted"
       /\ \A arguments \in LifecycleArguments :
              (Truthy(arguments[1]) /\ Truthy(arguments[2]))
              => ExecuteGuardError(stripeClient, arguments[1], arguments[2])
                    = "NotInitializedError"

\* ------------------------------------------------------------------------
\* BillingAddressActionCreator: the two streams of continueAsGuest
\* ------------------------------------------------------------------------

\* the call is a continueAsGuest that runs the subscription-update stream
WithConsent(c) == calls[c].kind = "continueAsGuest" /\ calls[c].consent # "none"

\* the call's stream is open and emits one more action in the step
EmitsNext(c) ==
    /\ calls[c].stream = "open"
    /\ Len(calls'[c].actions) = Len(calls[c].actions) + 1

\* C32: in continueAsGuest with a consent field provided, the billing
\* actions and the subscription-update actions come from two streams merged
\* concurrently: neither stream waits for the other to complete, their
\* actions may interleave in any order after Requested, and as soon as
\* either stream errors the merged stream terminates, so no further action
\* of the other stream is emitted.
C32_MergedConcurrently ==
    /\ [](\A c \in Calls :
            (WithConsent(c) /\ Passed(c))
            => /\ calls[c].actions[1].type = "ContinueAsGuestRequested"
               /\ (calls[c].billing = "rejected" \/ calls[c].consent = "rejected")
                     => calls[c].stream = "errored"
               /\ (calls[c].stream = "open" /\ calls[c].billing = "pending")
                     => /\ ENABLED (\E address \in ResponseAddresses :
                                       ResolveBillingRequest(c, address) /\ EmitsNext(c))
                        /\ ENABLED (\E e \in RequestErrors :
                                       RejectBillingRequest(c, e) /\ EmitsNext(c))
               /\ (calls[c].stream = "open" /\ calls[c].consent = "pending")
                     => /\ ENABLED (ResolveSubscriptionsRequest(c) /\ EmitsNext(c))
                        /\ ENABLED (\E e \in SubscriptionErrors :
                                       RejectSubscriptionsRequest(c, e) /\ EmitsNext(c)))
    /\ [][\A c \in Calls :
             (WithConsent(c) /\ calls[c].stream = "errored")
             => /\ calls'[c].actions = calls[c].actions
                /\ calls'[c].stream = "errored"]_vars

\* the subscription-update stream errored first; the billing request
\* resolved afterwards and no billing action followed
C32_Witness ==
    \E c \in Calls :
        /\ WithConsent(c)
        /\ calls[c].consent = "rejected"
        /\ calls[c].billing = "resolved"
        /\ calls[c].stream = "errored"
        /\ Len(calls[c].actions) = 3
        /\ calls[c].actions[3].type = "UpdateSubscriptionsFailed"

====
